---- MODULE Spec2Model ----
(***************************************************************************)
(* Model of the retrieval pipeline of RAG_AI_CHAT: src/lib/rag.ts          *)
(* (embedText, storeEmbedding, queryEmbeddings, retrieveContext) over the  *)
(* embeddings table of src/lib/db.ts and the optional Pinecone index.      *)
(*                                                                         *)
(* Text is a sequence of one-character strings.  A vector is a record      *)
(* [len, val]: the code only looks at a vector's length and passes its     *)
(* values on, so val is an opaque tag.  Scores of textSimilarity are kept  *)
(* in tenths (1.0 is 10, 0.1 is 1).                                        *)
(***************************************************************************)
EXTENDS Integers, Sequences, FiniteSets, TLC

\* ------------------------------------------------------------------ bounds
MaxQueryLen == 3      \* longest query text handed to retrieveContext
MaxCalls == 3         \* calls of the storage API in one behaviour
MaxChunks == 2        \* most chunks of one uploaded document
MaxDeltas == 2        \* most deltas of one completion stream
MaxMessages == 2      \* most messages of one chat request
MaxPieces == 4        \* most pieces of a text handed to chunkText
MaxSessions == 3       \* value Date.now() stops at: session ids are 1..MaxSessions

\* --------------------------------------------------------------- constants
D == 1536
maxLength == 8000
RetrieveTopK == 10
DefaultTopK == 5
maxSize == 10485760    \* 10 * 1024 * 1024, 10MB
MinChunkLength == 50
TitleLength == 50      \* substring(0, 50) of a session title

\* ------------------------------------------------------------------- text
Undefined == <<"undefined">>          \* a field that is absent (JS undefined)
EmptyText == << >>

IsWs(c) == c \in {" ", "\t", "\n"}

Min(a, b) == IF a < b THEN a ELSE b

\* a trim that strips nothing
trim_none(s) == s

\* String.prototype.trim: drop the whitespace before the first and after
\* the last character that is not whitespace
trim(s) ==
  IF \A i \in 1..Len(s) : IsWs(s[i]) THEN EmptyText
  ELSE LET lead == CHOOSE k \in 0..(Len(s) - 1) :
                     ~IsWs(s[k + 1]) /\ \A j \in 1..k : IsWs(s[j])
           trail == CHOOSE k \in 0..(Len(s) - 1) :
                      /\ ~IsWs(s[Len(s) - k])
                      /\ \A j \in (Len(s) - k + 1)..Len(s) : IsWs(s[j])
       IN SubSeq(s, lead + 1, Len(s) - trail)

\* String.prototype.slice(0, n)
slice(s, n) == SubSeq(s, 1, Min(Len(s), n))

\* s.replace(/\s+/g, ' '): every maximal run of whitespace becomes one space
collapseWs(s) ==
  LET marked == [i \in 1..Len(s) |->
                   [c |-> IF IsWs(s[i]) THEN " " ELSE s[i],
                    drop |-> IsWs(s[i]) /\ i > 1 /\ IsWs(s[i-1])]]
      kept == SelectSeq(marked, LAMBDA m : ~m.drop)
  IN [k \in 1..Len(kept) |-> kept[k].c]

Lower(c) == IF c = "A" THEN "a" ELSE IF c = "B" THEN "b" ELSE c

\* String.prototype.toLowerCase
toLowerCase(s) == [i \in 1..Len(s) |-> Lower(s[i])]

\* b.includes(a): a occurs in b as a contiguous substring
includes(b, a) ==
  \E k \in 0..(Len(b) - Len(a)) : \A i \in 1..Len(a) : b[k + i] = a[i]

\* a.split(" "): the pieces between single spaces, empty pieces kept
split(s) ==
  LET sp == {i \in 1..Len(s) : s[i] = " "}
      cut(k) == IF k = 0 THEN 0
                ELSE IF k = Cardinality(sp) + 1 THEN Len(s) + 1
                ELSE CHOOSE i \in sp : Cardinality({j \in sp : j <= i}) = k
  IN [k \in 1..(Cardinality(sp) + 1) |-> SubSeq(s, cut(k-1) + 1, cut(k) - 1)]

\* "Use the document only. Extract the answer. Question: "
RewritePrefix ==
  <<"U","s","e"," ","t","h","e"," ","d","o","c","u","m","e","n","t"," ",
    "o","n","l","y","."," ","E","x","t","r","a","c","t"," ","t","h","e"," ",
    "a","n","s","w","e","r","."," ","Q","u","e","s","t","i","o","n",":"," ">>

\* ---------------------------------------------------------------- vectors
NoVector == [len |-> -1, val |-> "undefined"]   \* a missing vector
VectorVals == {"v1", "v2"}
ValidVectors == [len : {D}, val : VectorVals]
WrongLens == {0, 768}
Vectors == ValidVectors \cup [len : WrongLens, val : {"v1"}]

\* a dimension check that only catches a missing vector
InvalidVector_missingOnly(v) == v = NoVector

\* !embedding || embedding.length !== 1536
InvalidVector(v) == v = NoVector \/ v.len # D

\* ------------------------------------------------------------------ state
VARIABLES
  env,             \* process.env: which of the settings are present
  pineconeClient,  \* rag.ts module variable: TRUE once a client is cached
  documents,       \* ids of the rows of the primary store's documents table
  embeddings,      \* rows of the primary store's embeddings table
  pinecone,        \* records of the secondary index
  call,            \* the call that ran last and its arguments
  events,          \* requests the last call sent to a store or service
  ret,             \* how the last call ended: its result or its error
  ncalls,          \* number of calls made so far
  users,           \* rows of the primary store's users table
  chatMessages,    \* rows of the primary store's chat_messages table
  pc,              \* position of each request handler in flight
  upstream,        \* bytes of the completion stream not yet read
  deltas,          \* the delta texts the completion service sent, in order
  emitted,         \* events the chat route enqueued on its response stream
  streamClosed,    \* the response stream is closed
  startPc,         \* position of the response stream's start() callback
  closes,          \* who closed the response stream, one entry per closing
  chunks,          \* upload route: result of chunkText(extractedText)
  idx,             \* upload route: loop index i
  chunkEmbedding,  \* upload route: embedding, the vector of chunks[i]
  successCount,    \* upload route: chunks stored
  failCount,       \* upload route: chunks given up
  sessions,        \* chat client: the sessions state of ChatInterface
  currentSessionId, \* chat client: id of the session shown, 0 for null
  messageHistory,  \* chat client: the messages shown
  chatSessions,    \* chat client: localStorage item chatSessions
  send,            \* chat client: the handleSendMessage call in flight
  now              \* chat client: Date.now()

\* the state of the chat route's response stream
streamVars == <<upstream, deltas, emitted, streamClosed, startPc, closes>>

\* the locals of the upload route's chunk loop
loopVars == <<chunks, idx, chunkEmbedding, successCount, failCount>>

\* the state of the chat client
clientVars == <<sessions, currentSessionId, messageHistory, chatSessions, send, now>>

\* what the chat and upload routes and the chat client add to the state of
\* the storage API
routeVars == <<users, chatMessages, pc, streamVars, loopVars, clientVars>>

vars == <<env, pineconeClient, documents, embeddings, pinecone, call, events, ret, ncalls, routeVars>>

\* no chat page is open
NoClient ==
  /\ sessions = << >>
  /\ currentSessionId = 0
  /\ messageHistory = << >>
  /\ chatSessions = << >>
  /\ send = [pc |-> "idle"]
  /\ now = 0

\* no request handler is in flight
NoRoute ==
  /\ NoClient
  /\ users = {}
  /\ chatMessages = {}
  /\ pc = << >>
  /\ upstream = << >>
  /\ deltas = << >>
  /\ emitted = << >>
  /\ streamClosed = FALSE
  /\ startPc = "idle"
  /\ closes = << >>
  /\ chunks = << >>
  /\ idx = 0
  /\ chunkEmbedding = [len |-> 0, val |-> "none"]
  /\ successCount = 0
  /\ failCount = 0

Ids == {"e1", "e2"}
DocumentIds == {"d1"}
TopKs == {1, DefaultTopK}

\* the metadata arguments of storeEmbedding (fileType, uploadedAt and userId
\* travel with fileName and are not modelled apart from it)
Metadatas ==
  {[documentId |-> "d1", chunkIndex |-> 0, content |-> <<"a", " ", "b">>,
    fileName |-> "f1"],
   [documentId |-> "d1", chunkIndex |-> 1, content |-> <<"c">>,
    fileName |-> "f2"]}

Envs == [OPENROUTER_API_KEY : BOOLEAN, PINECONE_API_KEY : BOOLEAN,
         PINECONE_INDEX : BOOLEAN]

NoCall == [fn |-> "none"]
NoRet == [kind |-> "none"]
Return(v) == [kind |-> "return", value |-> v]
Throw(e) == [kind |-> "throw", value |-> e]

RowsOf(table, id) == {r \in table : r.id = id}

\* all orderings of n distinct elements of S
Orderings(S, n) ==
  {s \in [1..n -> S] : \A i, j \in 1..n : i # j => s[i] # s[j]}

\* ------------------------------------------------------- db.ts embeddings
\* an INSERT without its ON CONFLICT clause
Upsert_insertOnly(table, row) == table \cup {row}

\* INSERT ... ON CONFLICT (id) DO UPDATE SET content, embedding, metadata
Upsert(table, row) ==
  IF RowsOf(table, row.id) = {}
  THEN table \cup {row}
  ELSE {IF r.id = row.id
        THEN [r EXCEPT !.content = row.content,
                       !.embedding = row.embedding,
                       !.metadata = row.metadata]
        ELSE r : r \in table}

\* db.embeddings.create; sqlOk: the database serves the INSERT, which then
\* succeeds when document_id references a row of documents
embeddings_create(table, id, documentId, chunkIndex, content, embedding, metadata, sqlOk) ==
  IF InvalidVector(embedding)
  THEN [threw |-> TRUE, table |-> table, events |-> << >>]
  ELSE IF ~sqlOk \/ documentId \notin documents
  THEN [threw |-> TRUE, table |-> table, events |-> <<"pg.insert">>]
  ELSE [threw |-> FALSE,
        table |-> Upsert(table, [id |-> id, document_id |-> documentId,
                                 chunk_index |-> chunkIndex,
                                 content |-> content, embedding |-> embedding,
                                 metadata |-> metadata]),
        events |-> <<"pg.insert">>]

\* the shape of a row returned by the SELECT of db.embeddings.search
PgMatch(r) == [id |-> r.id, document_id |-> r.document_id,
               content |-> r.content, metadata |-> r.metadata,
               similarity |-> "number"]

\* what SELECT ... ORDER BY embedding <#> q LIMIT limit can return: the
\* distances are not modelled, so every order of the rows is possible
SearchRows(table, limit) ==
  {[i \in 1..Len(o) |-> PgMatch(o[i])] :
     o \in Orderings(table, Min(limit, Cardinality(table)))}

\* the ways the SELECT can end: it fails, or it returns rows
SelectOutcomes(table, limit) ==
  {[ok |-> FALSE, rows |-> << >>]} \cup
  {[ok |-> TRUE, rows |-> s] : s \in SearchRows(table, limit)}

\* db.embeddings.search; sel: how the SELECT ends
embeddings_search(queryEmbedding, limit, sel) ==
  IF InvalidVector(queryEmbedding)
  THEN [threw |-> TRUE, rows |-> << >>, events |-> << >>]
  ELSE IF ~sel.ok
  THEN [threw |-> TRUE, rows |-> << >>, events |-> <<"pg.select">>]
  ELSE [threw |-> FALSE, rows |-> sel.rows, events |-> <<"pg.select">>]

\* ------------------------------------------------------- Pinecone index
\* index.upsert([{id, values, metadata}]): one record per id
IndexUpsert(index, rec) == {r \in index : r.id # rec.id} \cup {rec}

\* the shape of a match of index.query({includeMetadata: true})
PineconeMatch(r) == [id |-> r.id, score |-> "number", metadata |-> r.metadata]

QueryMatches(index, topK) ==
  {[i \in 1..Len(o) |-> PineconeMatch(o[i])] :
     o \in Orderings(index, Min(topK, Cardinality(index)))}

\* the ways index.query can end: it fails, or it answers with matches
QueryOutcomes(index, topK) ==
  {[ok |-> FALSE, matches |-> << >>]} \cup
  {[ok |-> TRUE, matches |-> s] : s \in QueryMatches(index, topK)}

\* initPinecone; ctorOk: new Pinecone(...) does not throw
initPinecone(client, ctorOk) ==
  IF client THEN [pc |-> TRUE, client |-> TRUE]
  ELSE IF ~env.PINECONE_API_KEY THEN [pc |-> FALSE, client |-> FALSE]
  ELSE IF ctorOk THEN [pc |-> TRUE, client |-> TRUE]
  ELSE [pc |-> FALSE, client |-> FALSE]

\* the cleanMetadata loop of storeEmbedding: strings, numbers and booleans
\* are copied, other values are stringified; all modelled fields are copied
cleanMetadata(metadata) == [k \in DOMAIN metadata |-> metadata[k]]

\* ------------------------------------------------------------ rag.ts
\* a storeEmbedding that treats a failure of the primary write as non-fatal
storeEmbedding_swallowPg(id, embedding, metadata, sqlOk, ctorOk, upsertOk) ==
  IF InvalidVector(embedding)
  THEN [ret |-> Throw("Invalid embedding"), table |-> embeddings,
        index |-> pinecone, client |-> pineconeClient, events |-> << >>]
  ELSE
    LET pg == embeddings_create(embeddings, id, metadata.documentId,
                                metadata.chunkIndex, metadata.content,
                                embedding,
                                [fileName |-> metadata.fileName], sqlOk)
        init == initPinecone(pineconeClient, ctorOk)
    IN IF env.PINECONE_INDEX /\ init.pc
       THEN [ret |-> Return("undefined"), table |-> pg.table,
             index |-> IF upsertOk
                       THEN IndexUpsert(pinecone,
                              [id |-> id, values |-> embedding,
                               metadata |-> cleanMetadata(metadata)])
                       ELSE pinecone,
             client |-> init.client,
             events |-> pg.events \o <<"pinecone.upsert">>]
       ELSE [ret |-> Return("undefined"), table |-> pg.table,
             index |-> pinecone, client |-> pineconeClient,
             events |-> pg.events]

\* a storeEmbedding that lets a failure of the secondary index escape
storeEmbedding_rethrow(id, embedding, metadata, sqlOk, ctorOk, upsertOk) ==
  IF InvalidVector(embedding)
  THEN [ret |-> Throw("Invalid embedding"), table |-> embeddings,
        index |-> pinecone, client |-> pineconeClient, events |-> << >>]
  ELSE
    LET pg == embeddings_create(embeddings, id, metadata.documentId,
                                metadata.chunkIndex, metadata.content,
                                embedding,
                                [fileName |-> metadata.fileName], sqlOk)
        init == initPinecone(pineconeClient, ctorOk)
    IN IF pg.threw
       THEN [ret |-> Throw("pgError"), table |-> pg.table,
             index |-> pinecone, client |-> pineconeClient,
             events |-> pg.events]
       ELSE IF ~env.PINECONE_INDEX
       THEN [ret |-> Return("undefined"), table |-> pg.table,
             index |-> pinecone, client |-> pineconeClient,
             events |-> pg.events]
       ELSE IF ~init.pc
       THEN [ret |-> IF env.PINECONE_API_KEY THEN Throw("pineconeError")
                     ELSE Return("undefined"),
             table |-> pg.table, index |-> pinecone,
             client |-> init.client, events |-> pg.events]
       ELSE [ret |-> IF upsertOk THEN Return("undefined")
                     ELSE Throw("pineconeError"),
             table |-> pg.table,
             index |-> IF upsertOk
                       THEN IndexUpsert(pinecone,
                              [id |-> id, values |-> embedding,
                               metadata |-> cleanMetadata(metadata)])
                       ELSE pinecone,
             client |-> init.client,
             events |-> pg.events \o <<"pinecone.upsert">>]

\* a storeEmbedding that upserts into the secondary index before it writes
\* the primary row
storeEmbedding_indexFirst(id, embedding, metadata, sqlOk, ctorOk, upsertOk) ==
  IF InvalidVector(embedding)
  THEN [ret |-> Throw("Invalid embedding"), table |-> embeddings,
        index |-> pinecone, client |-> pineconeClient, events |-> << >>]
  ELSE
    LET init == IF env.PINECONE_INDEX
                THEN initPinecone(pineconeClient, ctorOk)
                ELSE [pc |-> FALSE, client |-> pineconeClient]
        upserted == init.pc /\ upsertOk
        index == IF upserted
                 THEN IndexUpsert(pinecone,
                        [id |-> id, values |-> embedding,
                         metadata |-> cleanMetadata(metadata)])
                 ELSE pinecone
        pg == embeddings_create(embeddings, id, metadata.documentId,
                                metadata.chunkIndex, metadata.content,
                                embedding,
                                [fileName |-> metadata.fileName], sqlOk)
    IN [ret |-> IF pg.threw THEN Throw("pgError") ELSE Return("undefined"),
        table |-> pg.table, index |-> index, client |-> init.client,
        events |-> (IF init.pc THEN <<"pinecone.upsert">> ELSE << >>)
                     \o pg.events]

\* storeEmbedding; sqlOk: the primary INSERT succeeds, ctorOk: the Pinecone
\* client can be constructed, upsertOk: index.upsert succeeds
storeEmbedding(id, embedding, metadata, sqlOk, ctorOk, upsertOk) ==
  IF InvalidVector(embedding)
  THEN [ret |-> Throw("Invalid embedding"), table |-> embeddings,
        index |-> pinecone, client |-> pineconeClient, events |-> << >>]
  ELSE
    LET pg == embeddings_create(embeddings, id, metadata.documentId,
                                metadata.chunkIndex, metadata.content,
                                embedding,
                                [fileName |-> metadata.fileName], sqlOk)
    IN IF pg.threw
       THEN [ret |-> Throw("pgError"), table |-> pg.table,
             index |-> pinecone, client |-> pineconeClient,
             events |-> pg.events]
       ELSE IF ~env.PINECONE_INDEX
       THEN [ret |-> Return("undefined"), table |-> pg.table,
             index |-> pinecone, client |-> pineconeClient,
             events |-> pg.events]
       ELSE
         LET init == initPinecone(pineconeClient, ctorOk)
         IN IF ~init.pc
            THEN [ret |-> Return("undefined"), table |-> pg.table,
                  index |-> pinecone, client |-> init.client,
                  events |-> pg.events]
            ELSE [ret |-> Return("undefined"), table |-> pg.table,
                  index |-> IF upsertOk
                            THEN IndexUpsert(pinecone,
                                   [id |-> id, values |-> embedding,
                                    metadata |-> cleanMetadata(metadata)])
                            ELSE pinecone,
                  client |-> init.client,
                  events |-> pg.events \o <<"pinecone.upsert">>]

\* a queryEmbeddings that asks both stores and returns the union
queryEmbeddings_union(queryEmbedding, topK, sel, ctorOk, qry) ==
  IF InvalidVector(queryEmbedding)
  THEN [ret |-> Return(<< >>), client |-> pineconeClient, events |-> << >>]
  ELSE
    LET pg == embeddings_search(queryEmbedding, topK, sel)
        init == initPinecone(pineconeClient, ctorOk)
    IN IF env.PINECONE_INDEX /\ init.pc
       THEN [ret |-> Return(pg.rows \o qry.matches), client |-> init.client,
             events |-> pg.events \o <<"pinecone.query">>]
       ELSE [ret |-> Return(pg.rows), client |-> pineconeClient,
             events |-> pg.events]

\* queryEmbeddings; sel: how the primary SELECT ends, ctorOk: the Pinecone
\* client can be constructed, qry: how index.query ends
queryEmbeddings(queryEmbedding, topK, sel, ctorOk, qry) ==
  IF InvalidVector(queryEmbedding)
  THEN [ret |-> Return(<< >>), client |-> pineconeClient, events |-> << >>]
  ELSE
    LET pg == embeddings_search(queryEmbedding, topK, sel)
    IN IF ~pg.threw /\ Len(pg.rows) > 0
       THEN [ret |-> Return(pg.rows), client |-> pineconeClient,
             events |-> pg.events]
       ELSE IF ~env.PINECONE_INDEX
       THEN [ret |-> Return(<< >>), client |-> pineconeClient,
             events |-> pg.events]
       ELSE
         LET init == initPinecone(pineconeClient, ctorOk)
         IN IF ~init.pc
            THEN [ret |-> Return(<< >>), client |-> init.client,
                  events |-> pg.events]
            ELSE [ret |-> Return(IF qry.ok THEN qry.matches ELSE << >>),
                  client |-> init.client,
                  events |-> pg.events \o <<"pinecone.query">>]

\* ----------------------------------------------- storage API: the actions
AnyVectors == Vectors \cup {NoVector}

\* how the services behave during one storeEmbedding: the INSERT fails,
\* the Pinecone constructor throws, index.upsert fails, or nothing fails
StoreFaults == {"pgFail", "ctorFail", "upsertFail", "none"}
QueryFaults == {"ctorFail", "none"}

\* a caller runs storeEmbedding(id, embedding, metadata)
StoreEmbedding ==
  /\ ncalls < MaxCalls
  /\ \E id \in Ids, embedding \in AnyVectors, metadata \in Metadatas,
        fault \in StoreFaults :
       LET r == storeEmbedding(id, embedding, metadata, fault # "pgFail",
                               fault # "ctorFail", fault # "upsertFail")
       IN /\ embeddings' = r.table
          /\ pinecone' = r.index
          /\ pineconeClient' = r.client
          /\ events' = r.events
          /\ ret' = r.ret
          /\ call' = [fn |-> "storeEmbedding", id |-> id,
                      embedding |-> embedding, metadata |-> metadata,
                      fault |-> fault, before |-> RowsOf(embeddings, id)]
  /\ ncalls' = ncalls + 1
  /\ UNCHANGED <<routeVars, env, documents>>

\* a caller (the upload route) runs db.embeddings.create directly
EmbeddingsCreate ==
  /\ ncalls < MaxCalls
  /\ \E id \in Ids, embedding \in AnyVectors, metadata \in Metadatas,
        fault \in {"pgFail", "none"} :
       LET r == embeddings_create(embeddings, id, metadata.documentId,
                                  metadata.chunkIndex, metadata.content,
                                  embedding,
                                  [fileName |-> metadata.fileName],
                                  fault # "pgFail")
       IN /\ embeddings' = r.table
          /\ events' = r.events
          /\ ret' = IF r.threw THEN Throw("pgError") ELSE Return("row")
          /\ call' = [fn |-> "embeddings.create", id |-> id,
                      embedding |-> embedding, metadata |-> metadata,
                      fault |-> fault, before |-> RowsOf(embeddings, id)]
  /\ ncalls' = ncalls + 1
  /\ UNCHANGED <<routeVars, env, pineconeClient, documents, pinecone>>

\* the outcomes of a step the call never reaches are not enumerated
UnusedSelect == [ok |-> FALSE, rows |-> << >>]
UnusedQuery == [ok |-> FALSE, matches |-> << >>]

\* a caller runs queryEmbeddings(queryEmbedding, topK)
QueryEmbeddings ==
  /\ ncalls < MaxCalls
  /\ \E queryEmbedding \in AnyVectors, topK \in TopKs :
     \E sel \in IF InvalidVector(queryEmbedding) THEN {UnusedSelect}
                ELSE SelectOutcomes(embeddings, topK) :
       LET fallback == /\ ~InvalidVector(queryEmbedding)
                       /\ sel.rows = << >>
                       /\ env.PINECONE_INDEX
       IN
       \E fault \in IF fallback THEN QueryFaults ELSE {"none"},
          qry \in IF fallback THEN QueryOutcomes(pinecone, topK)
                  ELSE {UnusedQuery} :
         LET r == queryEmbeddings(queryEmbedding, topK, sel,
                                  fault # "ctorFail", qry)
         IN /\ pineconeClient' = r.client
            /\ events' = r.events
            /\ ret' = r.ret
            /\ call' = [fn |-> "queryEmbeddings",
                        queryEmbedding |-> queryEmbedding, topK |-> topK,
                        sel |-> sel, qry |-> qry, fault |-> fault]
  /\ ncalls' = ncalls + 1
  /\ UNCHANGED <<routeVars, env, documents, embeddings, pinecone>>

\* db.documents.create: INSERT INTO documents, the id is the primary key
\* (sqlOk also stands for the user check that precedes the INSERT)
documents_create(docs, id, sqlOk) ==
  IF ~sqlOk \/ id \in docs
  THEN [threw |-> TRUE, docs |-> docs]
  ELSE [threw |-> FALSE, docs |-> docs \cup {id}]

\* db.documents.delete: DELETE FROM documents, cascading to its embeddings
documents_delete(docs, table, id) ==
  [docs |-> docs \ {id}, table |-> {r \in table : r.document_id # id}]

DocumentsCreate ==
  /\ ncalls < MaxCalls
  /\ \E id \in DocumentIds, sqlOk \in BOOLEAN :
       LET r == documents_create(documents, id, sqlOk)
       IN /\ documents' = r.docs
          /\ ret' = IF r.threw THEN Throw("pgError") ELSE Return("row")
          /\ call' = [fn |-> "documents.create", id |-> id]
  /\ events' = << >>
  /\ ncalls' = ncalls + 1
  /\ UNCHANGED <<routeVars, env, pineconeClient, embeddings, pinecone>>

DocumentsDelete ==
  /\ ncalls < MaxCalls
  /\ \E id \in DocumentIds :
       LET r == documents_delete(documents, embeddings, id)
       IN /\ documents' = r.docs
          /\ embeddings' = r.table
          /\ call' = [fn |-> "documents.delete", id |-> id]
  /\ ret' = Return("undefined")
  /\ events' = << >>
  /\ ncalls' = ncalls + 1
  /\ UNCHANGED <<routeVars, env, pineconeClient, pinecone>>

\* the storage API never reads OPENROUTER_API_KEY; the database holds the
\* document of an earlier upload
Init ==
  /\ env \in {e \in Envs : e.OPENROUTER_API_KEY}
  /\ pineconeClient = FALSE
  /\ documents = DocumentIds
  /\ embeddings = {}
  /\ pinecone = {}
  /\ call = NoCall
  /\ events = << >>
  /\ ret = NoRet
  /\ ncalls = 0
  /\ NoRoute

Next ==
  \/ StoreEmbedding
  \/ EmbeddingsCreate
  \/ QueryEmbeddings
  \/ DocumentsCreate
  \/ DocumentsDelete

Spec == Init /\ [][Next]_vars

\* ------------------------------------------------- rag.ts: retrieval
\* the ways the embeddings request can end: fetch throws, the status is
\* not ok, or the body carries an embedding (NoVector: it carries none)
HttpOutcomes ==
  {[kind |-> "throw", embedding |-> NoVector],
   [kind |-> "notOk", embedding |-> NoVector]} \cup
  {[kind |-> "ok", embedding |-> v] :
     v \in {NoVector} \cup [len : WrongLens \cup {D}, val : {"v1"}]}

\* an embedText that returns whatever vector the service sent
embedText_noDimCheck(text, http) ==
  IF text = Undefined \/ text = EmptyText \/ trim(text) = EmptyText
  THEN [ret |-> Throw("Empty text provided for embedding"),
        events |-> << >>, input |-> Undefined]
  ELSE IF ~env.OPENROUTER_API_KEY
  THEN [ret |-> Throw("OPENROUTER_API_KEY is not set"),
        events |-> << >>, input |-> Undefined]
  ELSE
    LET cleanedText == trim(collapseWs(slice(text, maxLength)))
    IN [ret |-> IF http.kind = "throw" THEN Throw("fetch failed")
                ELSE IF http.kind = "notOk" THEN Throw("Embedding API failed")
                ELSE IF http.embedding = NoVector
                THEN Throw("Invalid embedding response from API")
                ELSE Return(http.embedding),
        events |-> <<"embeddings.fetch">>, input |-> cleanedText]

\* embedText; http: how the embeddings request ends; input is the text
\* sent to the embedding service
embedText(text, http) ==
  IF text = Undefined \/ text = EmptyText \/ trim(text) = EmptyText
  THEN [ret |-> Throw("Empty text provided for embedding"),
        events |-> << >>, input |-> Undefined]
  ELSE IF ~env.OPENROUTER_API_KEY
  THEN [ret |-> Throw("OPENROUTER_API_KEY is not set"),
        events |-> << >>, input |-> Undefined]
  ELSE
    LET cleanedText == trim(collapseWs(slice(text, maxLength)))
    IN [ret |-> IF http.kind = "throw" THEN Throw("fetch failed")
                ELSE IF http.kind = "notOk" THEN Throw("Embedding API failed")
                ELSE IF http.embedding = NoVector
                THEN Throw("Invalid embedding response from API")
                ELSE IF http.embedding.len # 1536
                THEN Throw("Invalid embedding dimensions")
                ELSE Return(http.embedding),
        events |-> <<"embeddings.fetch">>, input |-> cleanedText]

\* m.f of a match: Undefined when the match has no such field
Field(m, f) == IF f \in DOMAIN m THEN m[f] ELSE Undefined

\* a value that || skips: undefined or the empty string
Falsy(x) == x = Undefined \/ x = EmptyText

\* textSimilarity(a, b) of retrieveContext, in tenths
textSimilarity(a, b) ==
  LET la == toLowerCase(a)
      lb == toLowerCase(b)
      words == split(la)
  IN (IF includes(lb, la) THEN 10 ELSE 0)
     + Cardinality({k \in 1..Len(words) : includes(lb, words[k])})

\* a sort whose comparator has its operands swapped
matches_sort_ascending(matches, query) ==
  LET n == Len(matches)
      score(i) == textSimilarity(query, matches[i].content)
      pos(i) == 1 + Cardinality({j \in 1..n :
                  \/ score(j) < score(i)
                  \/ score(j) = score(i) /\ j < i})
  IN [k \in 1..n |-> matches[CHOOSE i \in 1..n : pos(i) = k]]

\* matches.sort((a, b) => textSimilarity(query, b.content) -
\* textSimilarity(query, a.content)): a stable sort, highest score first
matches_sort(matches, query) ==
  LET n == Len(matches)
      score(i) == textSimilarity(query, matches[i].content)
      pos(i) == 1 + Cardinality({j \in 1..n :
                  \/ score(j) > score(i)
                  \/ score(j) = score(i) /\ j < i})
  IN [k \in 1..n |-> matches[CHOOSE i \in 1..n : pos(i) = k]]

\* the comparator reads b.content.toLowerCase(): it throws on a match
\* without content; a list of fewer than two matches is never compared
SortThrows(matches) ==
  Len(matches) >= 2 /\ \E i \in 1..Len(matches) :
                          Field(matches[i], "content") = Undefined

\* match.content || match.metadata?.content || match.metadata?.chunk_content
\* || ''
matchText(m) ==
  IF ~Falsy(Field(m, "content")) THEN m.content
  ELSE IF ~Falsy(Field(m.metadata, "content")) THEN m.metadata.content
  ELSE IF ~Falsy(Field(m.metadata, "chunk_content"))
  THEN m.metadata.chunk_content
  ELSE EmptyText

\* texts.filter(Boolean).join('\n\n')
RECURSIVE join(_)
join(texts) ==
  IF texts = << >> THEN EmptyText
  ELSE IF Len(texts) = 1 THEN texts[1]
  ELSE texts[1] \o <<"\n", "\n">> \o join(Tail(texts))

filterBoolean(texts) == SelectSeq(texts, LAMBDA t : t # EmptyText)

\* a retrieveContext whose catch lets a failed embedding escape
retrieveContext_rethrow(query, http, sel, ctorOk, qry) ==
  IF query = Undefined \/ query = EmptyText \/ trim(query) = EmptyText
  THEN [ret |-> Return(EmptyText), events |-> << >>,
        client |-> pineconeClient, matches |-> << >>, input |-> Undefined]
  ELSE
    LET emb == embedText(RewritePrefix \o query, http)
    IN IF emb.ret.kind = "throw"
       THEN [ret |-> emb.ret, events |-> emb.events,
             client |-> pineconeClient, matches |-> << >>,
             input |-> emb.input]
       ELSE
         LET q == queryEmbeddings(emb.ret.value, RetrieveTopK, sel, ctorOk,
                                  qry)
         IN IF q.ret.kind = "throw" \/ SortThrows(q.ret.value)
            THEN [ret |-> Return(EmptyText),
                  events |-> emb.events \o q.events,
                  client |-> q.client, matches |-> << >>,
                  input |-> emb.input]
            ELSE
              LET found == q.ret.value
                  sorted == IF Len(found) >= 2
                            THEN matches_sort(found, query) ELSE found
              IN [ret |-> Return(join(filterBoolean(
                            [k \in 1..Len(sorted) |-> matchText(sorted[k])]))),
                  events |-> emb.events \o q.events,
                  client |-> q.client, matches |-> sorted,
                  input |-> emb.input]

\* retrieveContext; http, sel, ctorOk, qry: how the embeddings request, the
\* primary SELECT, the Pinecone constructor and index.query end; every
\* failure inside ends in the catch, which returns ''
retrieveContext(query, http, sel, ctorOk, qry) ==
  IF query = Undefined \/ query = EmptyText \/ trim(query) = EmptyText
  THEN [ret |-> Return(EmptyText), events |-> << >>,
        client |-> pineconeClient, matches |-> << >>, input |-> Undefined]
  ELSE
    LET emb == embedText(RewritePrefix \o query, http)
    IN IF emb.ret.kind = "throw"
       THEN [ret |-> Return(EmptyText), events |-> emb.events,
             client |-> pineconeClient, matches |-> << >>,
             input |-> emb.input]
       ELSE
         LET q == queryEmbeddings(emb.ret.value, RetrieveTopK, sel, ctorOk,
                                  qry)
         IN IF q.ret.kind = "throw" \/ SortThrows(q.ret.value)
            THEN [ret |-> Return(EmptyText),
                  events |-> emb.events \o q.events,
                  client |-> q.client, matches |-> << >>,
                  input |-> emb.input]
            ELSE
              LET found == q.ret.value
                  sorted == IF Len(found) >= 2
                            THEN matches_sort(found, query) ELSE found
              IN [ret |-> Return(join(filterBoolean(
                            [k \in 1..Len(sorted) |-> matchText(sorted[k])]))),
                  events |-> emb.events \o q.events,
                  client |-> q.client, matches |-> sorted,
                  input |-> emb.input]

\* --------------------------------------------- retrieval: the actions
QueryChars == {"a", "B", " "}

RECURSIVE TextsOfLen(_)
TextsOfLen(n) ==
  IF n = 0 THEN {EmptyText}
  ELSE {Append(t, c) : t \in TextsOfLen(n - 1), c \in QueryChars}

Queries == UNION {TextsOfLen(n) : n \in 0..MaxQueryLen}

RetrieveContents == {<<"a", " ", "b">>, <<"A">>, <<"c">>}

StoredRow(id, content) ==
  [id |-> id, document_id |-> "d1", chunk_index |-> 0, content |-> content,
   embedding |-> [len |-> D, val |-> "v1"], metadata |-> [fileName |-> "f1"]]

\* the record storeEmbedding upserts into the index for a stored row
Shadow(r) ==
  [id |-> r.id, values |-> r.embedding,
   metadata |-> [documentId |-> r.document_id, chunkIndex |-> r.chunk_index,
                 content |-> r.content, fileName |-> r.metadata.fileName]]

\* embeddings tables earlier uploads can have left: one row per id
Tables ==
  {{StoredRow(id, f[id]) : id \in ids} :
     f \in [Ids -> RetrieveContents], ids \in SUBSET Ids}

\* one request against stores in a state earlier requests can have left:
\* the index shadows the table or outlived a deleted document
InitRetrieve ==
  /\ env \in Envs
  /\ pineconeClient = FALSE
  /\ documents = DocumentIds
  /\ \E t \in Tables :
       \/ embeddings = t /\ pinecone = {Shadow(r) : r \in t}
       \/ embeddings = {} /\ pinecone = {Shadow(r) : r \in t}
  /\ call = NoCall
  /\ events = << >>
  /\ ret = NoRet
  /\ ncalls = 0
  /\ NoRoute

\* a caller runs embedText(text)
\* a text whose first maxLength characters are whitespace, followed by a word
BlankPrefixText == [k \in 1..(maxLength + 1) |-> IF k <= maxLength THEN " " ELSE "a"]

\* the texts embedText is called with
EmbedTexts == Queries \cup {BlankPrefixText}

EmbedText ==
  /\ ncalls = 0
  /\ \E text \in EmbedTexts, http \in HttpOutcomes :
       LET r == embedText(text, http)
       IN /\ events' = r.events
          /\ ret' = r.ret
          /\ call' = [fn |-> "embedText", text |-> text, http |-> http,
                      input |-> r.input]
  /\ ncalls' = ncalls + 1
  /\ UNCHANGED <<routeVars, env, pineconeClient, documents, embeddings, pinecone>>

\* the chat route runs retrieveContext(query)
RetrieveContext ==
  /\ ncalls = 0
  /\ \E query \in Queries, http \in HttpOutcomes :
       LET searched == /\ trim(query) # EmptyText
                       /\ env.OPENROUTER_API_KEY
                       /\ http.kind = "ok" /\ ~InvalidVector(http.embedding)
       IN
       \E sel \in IF searched THEN SelectOutcomes(embeddings, RetrieveTopK)
                  ELSE {UnusedSelect} :
         LET fallback == searched /\ sel.rows = << >> /\ env.PINECONE_INDEX
         IN
         \E fault \in IF fallback THEN QueryFaults ELSE {"none"},
            qry \in IF fallback THEN QueryOutcomes(pinecone, RetrieveTopK)
                    ELSE {UnusedQuery} :
           LET r == retrieveContext(query, http, sel, fault # "ctorFail",
                                    qry)
           IN /\ pineconeClient' = r.client
              /\ events' = r.events
              /\ ret' = r.ret
              /\ call' = [fn |-> "retrieveContext", query |-> query,
                          http |-> http, sel |-> sel, qry |-> qry,
                          fault |-> fault, matches |-> r.matches,
                          input |-> r.input]
  /\ ncalls' = ncalls + 1
  /\ UNCHANGED <<routeVars, env, documents, embeddings, pinecone>>

NextRetrieve == RetrieveContext

SpecRetrieve == InitRetrieve /\ [][NextRetrieve]_vars

\* one call of embedText: it reads the environment and no store
InitEmbed ==
  /\ env \in Envs
  /\ pineconeClient = FALSE
  /\ documents = {}
  /\ embeddings = {}
  /\ pinecone = {}
  /\ call = NoCall
  /\ events = << >>
  /\ ret = NoRet
  /\ ncalls = 0
  /\ NoRoute

NextEmbed == EmbedText

SpecEmbed == InitEmbed /\ [][NextEmbed]_vars

\* ------------------------------------------- db.ts: users, chat messages
UserIds == {"u1"}

\* the row written by db.users.upsert(id, `${id}@temp.local`, name, 'user')
UserRow(id, email, name, role) ==
  [id |-> id, email |-> email, name |-> name, role |-> role]

\* an INSERT INTO users without its ON CONFLICT clause
users_upsert_insertOnly(table, id, email, name, role, sqlOk) ==
  IF ~sqlOk THEN [threw |-> TRUE, table |-> table]
  ELSE [threw |-> FALSE, table |-> table \cup {UserRow(id, email, name, role)}]

\* db.users.upsert: INSERT ... ON CONFLICT (id) DO UPDATE SET email, name;
\* sqlOk: the database serves the statement
users_upsert(table, id, email, name, role, sqlOk) ==
  IF ~sqlOk THEN [threw |-> TRUE, table |-> table]
  ELSE IF RowsOf(table, id) = {}
  THEN [threw |-> FALSE,
        table |-> table \cup {UserRow(id, email, name, role)}]
  ELSE [threw |-> FALSE,
        table |-> {IF r.id = id
                   THEN [r EXCEPT !.email = email, !.name = name]
                   ELSE r : r \in table}]

\* db.users.getById: result[0] || null
users_getById(table, id, sqlOk) ==
  IF ~sqlOk THEN [threw |-> TRUE, found |-> FALSE]
  ELSE [threw |-> FALSE, found |-> RowsOf(table, id) # {}]

\* the SELECT id FROM users that db.documents.create runs before its INSERT
userCheck(table, userId) == RowsOf(table, userId) # {}

\* db.chatMessages.create: INSERT INTO chat_messages; user_id references
\* users(id)
chatMessages_create(msgs, table, id, userId, role, content, images, sqlOk) ==
  IF ~sqlOk \/ RowsOf(table, userId) = {} \/ RowsOf(msgs, id) # {}
  THEN [threw |-> TRUE, msgs |-> msgs]
  ELSE [threw |-> FALSE,
        msgs |-> msgs \cup {[id |-> id, user_id |-> userId, role |-> role,
                             content |-> content, images |-> images]}]

\* ----------------------- concurrent requests of one owner: the user row
ChatTurns == {"t1", "t2"}
Uploads == {"up1"}

\* the columns both routes pass to db.users.upsert
TempEmail(userId) == userId \o "@temp.local"

\* chat route: const existingUser = await db.users.getById(userId); an
\* error is logged and the turn goes on
ChatGetUser(t) ==
  /\ pc[t] = "getUser"
  /\ \E userId \in UserIds, sqlOk \in BOOLEAN :
       LET r == users_getById(users, userId, sqlOk)
       IN /\ pc' = [pc EXCEPT ![t] = IF ~r.threw /\ ~r.found
                                     THEN "upsertUser" ELSE "complete"]
          /\ call' = [fn |-> "users.getById", request |-> t,
                      userId |-> userId, before |-> RowsOf(users, userId)]
  /\ UNCHANGED <<env, pineconeClient, documents, embeddings, pinecone,
                 events, ret, ncalls, users, chatMessages, streamVars,
                 loopVars, clientVars>>

\* chat route: await db.users.upsert(userId, ..., 'Chat User', 'user'); an
\* error is logged and the turn goes on
ChatUpsertUser(t) ==
  /\ pc[t] = "upsertUser"
  /\ \E userId \in UserIds, sqlOk \in BOOLEAN :
       LET r == users_upsert(users, userId, TempEmail(userId), "Chat User",
                             "user", sqlOk)
       IN /\ users' = r.table
          /\ call' = [fn |-> "users.upsert", request |-> t,
                      userId |-> userId, before |-> RowsOf(users, userId)]
  /\ pc' = [pc EXCEPT ![t] = "complete"]
  /\ UNCHANGED <<env, pineconeClient, documents, embeddings, pinecone,
                 events, ret, ncalls, chatMessages, streamVars, loopVars, clientVars>>

\* chat route: the context is retrieved and the completion is requested;
\* a non-success answer ends the turn before the message is stored
ChatComplete(t) ==
  /\ pc[t] = "complete"
  /\ \E ok \in BOOLEAN :
       pc' = [pc EXCEPT ![t] = IF ok THEN "storeMessage" ELSE "done"]
  /\ call' = [fn |-> "fetch", request |-> t]
  /\ UNCHANGED <<env, pineconeClient, documents, embeddings, pinecone,
                 events, ret, ncalls, users, chatMessages, streamVars,
                 loopVars, clientVars>>

\* chat route: await db.chatMessages.create(msg id, userId, 'user', ...);
\* an error is logged and the turn goes on to stream
ChatStoreMessage(t) ==
  /\ pc[t] = "storeMessage"
  /\ \E userId \in UserIds, sqlOk \in BOOLEAN :
       LET r == chatMessages_create(chatMessages, users, "msg-" \o t, userId,
                                    "user", <<"a">>, << >>, sqlOk)
       IN /\ chatMessages' = r.msgs
          /\ call' = [fn |-> "chatMessages.create", request |-> t,
                      userId |-> userId, before |-> RowsOf(users, userId)]
  /\ pc' = [pc EXCEPT ![t] = "done"]
  /\ UNCHANGED <<env, pineconeClient, documents, embeddings, pinecone,
                 events, ret, ncalls, users, streamVars, loopVars, clientVars>>

\* ------------------------------------------------ upload route: the steps
\* file.type of the uploads: an image, a text document, an unsupported type
MimeTypes == {"image/png", "text/plain", "application/zip"}

\* SUPPORTED_IMAGE_TYPES.includes(mimeType) || mimeType.startsWith('image/')
IsImageType(mimeType) == mimeType \in {"image/png"}

\* buffer.length of the uploads
FileSizes == {0, 1, maxSize, maxSize + 1}

\* an HTTP response: status and the JSON body's discriminating fields
Response(status, body) == [status |-> status, body |-> body]

ErrorBody(error) == [error |-> error]

\* processImage(buffer, mimeType), buffer given by its length
processImage(size, mimeType) ==
  IF size = 0 THEN Throw("Failed to process image: Empty buffer")
  ELSE IF ~IsImageType(mimeType)
  THEN Throw("Failed to process image: Invalid MIME type")
  ELSE IF size > maxSize
  THEN Throw("Failed to process image: Image too large")
  ELSE Return("data:" \o mimeType \o ";base64")

\* the texts of the chunks of the uploaded documents
ChunkTexts == {<<"a", " ", "b">>, <<"c">>}

\* what chunkText returns for a text that is not blank: at least one chunk
ChunkLists == UNION {[1..n -> ChunkTexts] : n \in 1..MaxChunks}

\* the ways text extraction can end: it throws, or it returns a blank text,
\* or a text that chunkText cuts into chunks
Extractions ==
  {[kind |-> "throw", chunks |-> << >>],
   [kind |-> "blank", chunks |-> << >>]} \cup
  {[kind |-> "text", chunks |-> c] : c \in ChunkLists}

\* `${documentId}-chunk-${i}`
chunkId_first(documentId, n) == documentId \o "-chunk-0"

chunkId(documentId, n) == documentId \o "-chunk-" \o ToString(n)

\* the metadata the loop passes to storeEmbedding for chunk n
chunkMetadata(documentId, n, content) ==
  [documentId |-> documentId, chunkIndex |-> n, content |-> content,
   fileName |-> "f1"]

\* upload route, lines 60-91: the form is parsed, file and userId are
\* checked, the schema is initialized
UploadStart(u) ==
  /\ pc[u] = "start"
  /\ \E hasFile \in BOOLEAN, hasUserId \in BOOLEAN, initOk \in BOOLEAN :
       /\ call' = [fn |-> "upload.start", request |-> u,
                   hasFile |-> hasFile, hasUserId |-> hasUserId]
       /\ IF ~hasFile
          THEN /\ ret' = Return(Response(400, ErrorBody("No file provided")))
               /\ events' = << >>
               /\ pc' = [pc EXCEPT ![u] = "done"]
          ELSE IF ~hasUserId
          THEN /\ ret' = Return(Response(401,
                                         ErrorBody("User ID is required")))
               /\ events' = << >>
               /\ pc' = [pc EXCEPT ![u] = "done"]
          ELSE IF ~initOk
          THEN /\ ret' = Return(Response(500,
                            ErrorBody("Database initialization failed")))
               /\ events' = <<"db.init">>
               /\ pc' = [pc EXCEPT ![u] = "done"]
          ELSE /\ ret' = NoRet
               /\ events' = <<"db.init">>
               /\ pc' = [pc EXCEPT ![u] = "getUser"]
  /\ UNCHANGED <<env, pineconeClient, documents, embeddings, pinecone,
                 ncalls, users, chatMessages, streamVars, loopVars, clientVars>>

\* ensureUserExists: let user = await db.users.getById(userId); an error
\* ends the upload with status 500
UploadGetUser(u) ==
  /\ pc[u] = "getUser"
  /\ \E userId \in UserIds, sqlOk \in BOOLEAN :
       LET r == users_getById(users, userId, sqlOk)
       IN /\ pc' = [pc EXCEPT ![u] = IF r.threw THEN "done"
                                     ELSE IF r.found THEN "file"
                                     ELSE "upsertUser"]
          /\ ret' = IF r.threw
                    THEN Return(Response(500,
                           ErrorBody("Failed to create user record")))
                    ELSE ret
          /\ call' = [fn |-> "users.getById", request |-> u,
                      userId |-> userId, before |-> RowsOf(users, userId)]
  /\ events' = Append(events, "users.getById")
  /\ UNCHANGED <<env, pineconeClient, documents, embeddings, pinecone,
                 ncalls, users, chatMessages, streamVars, loopVars, clientVars>>

\* ensureUserExists: user = await db.users.upsert(userId, ..., 'App User',
\* 'user'); an error ends the upload with status 500
UploadUpsertUser(u) ==
  /\ pc[u] = "upsertUser"
  /\ \E userId \in UserIds, sqlOk \in BOOLEAN :
       LET r == users_upsert(users, userId, TempEmail(userId), "App User",
                             "user", sqlOk)
       IN /\ users' = r.table
          /\ pc' = [pc EXCEPT ![u] = IF r.threw THEN "done" ELSE "file"]
          /\ ret' = IF r.threw
                    THEN Return(Response(500,
                           ErrorBody("Failed to create user record")))
                    ELSE ret
          /\ call' = [fn |-> "users.upsert", request |-> u,
                      userId |-> userId, before |-> RowsOf(users, userId)]
  /\ events' = Append(events, "users.upsert")
  /\ UNCHANGED <<env, pineconeClient, documents, embeddings, pinecone,
                 ncalls, chatMessages, streamVars, loopVars, clientVars>>

\* the two counters after a chunk was stored or given up
tally_successOnly(success, fail, stored) ==
  IF stored THEN [success |-> success + 1, fail |-> fail]
  ELSE [success |-> success, fail |-> fail]

\* successCount++ on the one path, failCount++ on every other
tally(success, fail, stored) ==
  IF stored THEN [success |-> success + 1, fail |-> fail]
  ELSE [success |-> success, fail |-> fail + 1]

\* upload route, lines 109-210: an image is answered at once; a document's
\* text is extracted, its row is created and its text is chunked
UploadFile(u) ==
  /\ pc[u] = "file"
  /\ \E userId \in UserIds, mimeType \in MimeTypes, size \in FileSizes :
     \E ext \in IF mimeType = "text/plain" THEN Extractions
                ELSE {[kind |-> "throw", chunks |-> << >>]},
        docOk \in IF mimeType = "text/plain" THEN BOOLEAN ELSE {TRUE} :
       LET img == processImage(size, mimeType)
           doc == documents_create(documents, "d1",
                                   docOk /\ userCheck(users, userId))
           toLoop == /\ mimeType = "text/plain" /\ ext.kind = "text"
                     /\ ~doc.threw /\ ext.chunks # << >>
       IN /\ call' = [fn |-> "upload.file", request |-> u,
                      userId |-> userId, mimeType |-> mimeType,
                      size |-> size, extraction |-> ext.kind,
                      before |-> RowsOf(users, userId)]
          /\ ret' =
               IF IsImageType(mimeType)
               THEN IF img.kind = "throw"
                    THEN Return(Response(500, ErrorBody(img.value)))
                    ELSE Return(Response(200, [success |-> TRUE,
                                               isImage |-> TRUE,
                                               base64 |-> img.value]))
               ELSE IF mimeType # "text/plain"
               THEN Return(Response(400, ErrorBody("Unsupported file type")))
               ELSE IF ext.kind = "throw"
               THEN Return(Response(500, ErrorBody("Text extraction failed")))
               ELSE IF ext.kind = "blank"
               THEN Return(Response(400,
                      ErrorBody("No text content found in document")))
               ELSE IF doc.threw
               THEN Return(Response(500, ErrorBody("Database error")))
               ELSE IF ext.chunks = << >>
               THEN Return(Response(400,
                      ErrorBody("Failed to create text chunks")))
               ELSE ret
          /\ documents' = IF mimeType = "text/plain" /\ ext.kind = "text"
                          THEN doc.docs ELSE documents
          /\ events' = IF mimeType = "text/plain" /\ ext.kind = "text"
                       THEN Append(events, "documents.create") ELSE events
          /\ chunks' = IF toLoop THEN ext.chunks ELSE chunks
          /\ pc' = [pc EXCEPT ![u] = IF toLoop THEN "embed" ELSE "done"]
  /\ idx' = 0
  /\ successCount' = 0
  /\ failCount' = 0
  /\ UNCHANGED <<env, pineconeClient, embeddings, pinecone, ncalls, users,
                 chatMessages, streamVars, chunkEmbedding, clientVars>>

\* chunk loop: const embedding = await embedText(chunks[i]); a failure is
\* counted and the loop goes on with the next chunk
ChunkEmbed(u) ==
  /\ pc[u] = "embed"
  /\ idx < Len(chunks)
  /\ \E http \in HttpOutcomes :
       LET r == embedText(chunks[idx + 1], http)
           failed == r.ret.kind = "throw" \/ r.ret.value = NoVector
                     \/ r.ret.value.len = 0
           t == tally(successCount, failCount, FALSE)
       IN /\ events' = events \o r.events
          /\ call' = [fn |-> "embedText", request |-> u, n |-> idx,
                      http |-> http]
          /\ IF failed
             THEN /\ failCount' = t.fail
                  /\ idx' = idx + 1
                  /\ UNCHANGED <<pc, chunkEmbedding, clientVars>>
             ELSE /\ chunkEmbedding' = r.ret.value
                  /\ pc' = [pc EXCEPT ![u] = "store"]
                  /\ UNCHANGED <<failCount, idx, clientVars>>
  /\ UNCHANGED <<env, pineconeClient, documents, embeddings, pinecone, ret,
                 ncalls, users, chatMessages, streamVars, chunks,
                 successCount, clientVars>>

\* chunk loop: await storeEmbedding(id, embedding, {content: chunks[i], ...,
\* chunkIndex: i, documentId}); an error is logged and the loop goes on
ChunkStore(u) ==
  /\ pc[u] = "store"
  /\ \E fault \in StoreFaults :
       LET r == storeEmbedding(chunkId("d1", idx), chunkEmbedding,
                               chunkMetadata("d1", idx, chunks[idx + 1]),
                               fault # "pgFail", fault # "ctorFail",
                               fault # "upsertFail")
       IN /\ embeddings' = r.table
          /\ pinecone' = r.index
          /\ pineconeClient' = r.client
          /\ events' = events \o r.events
          /\ call' = [fn |-> "storeEmbedding", request |-> u, n |-> idx,
                      fault |-> fault, threw |-> r.ret.kind = "throw"]
  /\ pc' = [pc EXCEPT ![u] = "create"]
  /\ UNCHANGED <<env, documents, ret, ncalls, users, chatMessages,
                 streamVars, loopVars, clientVars>>

\* chunk loop: await db.embeddings.create(id, documentId, i, chunks[i],
\* embedding, {...}); the chunk is counted as stored or as failed
ChunkCreate(u) ==
  /\ pc[u] = "create"
  /\ \E sqlOk \in BOOLEAN :
       LET r == embeddings_create(embeddings, chunkId("d1", idx), "d1", idx,
                                  chunks[idx + 1], chunkEmbedding,
                                  [fileName |-> "f1"], sqlOk)
           t == tally(successCount, failCount, ~r.threw)
       IN /\ embeddings' = r.table
          /\ events' = events \o r.events
          /\ successCount' = t.success
          /\ failCount' = t.fail
          /\ call' = [fn |-> "embeddings.create", request |-> u, n |-> idx,
                      threw |-> r.threw]
  /\ idx' = idx + 1
  /\ pc' = [pc EXCEPT ![u] = "embed"]
  /\ UNCHANGED <<env, pineconeClient, documents, pinecone, ret, ncalls,
                 users, chatMessages, streamVars, chunks, chunkEmbedding, clientVars>>

\* after the loop: the response counts the chunks
UploadRespond(u) ==
  /\ pc[u] = "embed"
  /\ idx = Len(chunks)
  /\ ret' = Return(Response(200,
               [success |-> TRUE, isImage |-> FALSE, documentId |-> "d1",
                chunksProcessed |-> successCount,
                totalChunks |-> Len(chunks),
                successCount |-> successCount, failCount |-> failCount]))
  /\ call' = [fn |-> "upload.respond", request |-> u]
  /\ pc' = [pc EXCEPT ![u] = "done"]
  /\ UNCHANGED <<env, pineconeClient, documents, embeddings, pinecone,
                 events, ncalls, users, chatMessages, streamVars, loopVars, clientVars>>

\* one upload, by an owner who may or may not have a user row yet
InitUpload ==
  /\ NoClient
  /\ env \in Envs
  /\ pineconeClient = FALSE
  /\ documents = {}
  /\ embeddings = {}
  /\ pinecone = {}
  /\ call = NoCall
  /\ events = << >>
  /\ ret = NoRet
  /\ ncalls = 0
  /\ users \in {{}, {UserRow("u1", TempEmail("u1"), "Chat User", "user")}}
  /\ chatMessages = {}
  /\ pc = [u \in Uploads |-> "start"]
  /\ upstream = << >>
  /\ deltas = << >>
  /\ emitted = << >>
  /\ streamClosed = FALSE
  /\ startPc = "idle"
  /\ closes = << >>
  /\ chunks = << >>
  /\ idx = 0
  /\ chunkEmbedding = [len |-> 0, val |-> "none"]
  /\ successCount = 0
  /\ failCount = 0

NextUpload ==
  \E u \in Uploads :
    \/ UploadStart(u)
    \/ UploadGetUser(u)
    \/ UploadUpsertUser(u)
    \/ UploadFile(u)
    \/ ChunkEmbed(u)
    \/ ChunkStore(u)
    \/ ChunkCreate(u)
    \/ UploadRespond(u)

SpecUpload == InitUpload /\ [][NextUpload]_vars

\* two chat turns and one upload of an owner who has no user row yet; the
\* requests passed their checks and are about to look the user up
InitUsers ==
  /\ NoClient
  /\ env = [OPENROUTER_API_KEY |-> TRUE, PINECONE_API_KEY |-> TRUE,
            PINECONE_INDEX |-> TRUE]
  /\ pineconeClient = FALSE
  /\ documents = {}
  /\ embeddings = {}
  /\ pinecone = {}
  /\ call = NoCall
  /\ events = << >>
  /\ ret = NoRet
  /\ ncalls = 0
  /\ users = {}
  /\ chatMessages = {}
  /\ pc = [r \in ChatTurns \cup Uploads |-> "getUser"]
  /\ upstream = << >>
  /\ deltas = << >>
  /\ emitted = << >>
  /\ streamClosed = FALSE
  /\ startPc = "idle"
  /\ closes = << >>
  /\ chunks = << >>
  /\ idx = 0
  /\ chunkEmbedding = [len |-> 0, val |-> "none"]
  /\ successCount = 0
  /\ failCount = 0

NextUsers ==
  \/ \E t \in ChatTurns :
       \/ ChatGetUser(t)
       \/ ChatUpsertUser(t)
       \/ ChatComplete(t)
       \/ ChatStoreMessage(t)
  \/ \E u \in Uploads :
       \/ UploadGetUser(u)
       \/ UploadUpsertUser(u)
       \/ UploadFile(u)

SpecUsers == InitUsers /\ [][NextUsers]_vars

\* ----------------------------------------------- chat route: the stream
\* the content of a delta of the completion service
DeltaChars == {"x", "y"}
DeltaTexts == {EmptyText, <<"x">>, <<"y">>}

\* the bytes of the upstream stream, one element per character; the JSON
\* around a delta's content and the end marker are single elements, so a
\* network read never ends inside them
Prefix == <<"d", "a", "t", "a", ":", " ">>
JsonOpen == "{\"choices\":[{\"delta\":{\"content\":\""
JsonClose == "\"}}]}"
Done == "[DONE]"

\* the line the completion service sends for one delta
DeltaLine(text) ==
  Prefix \o <<JsonOpen>> \o text \o <<JsonClose>> \o <<"\n", "\n">>

\* the stream the completion service sends for a list of deltas
RECURSIVE Wire(_)
Wire(texts) ==
  IF texts = << >> THEN Prefix \o <<Done>> \o <<"\n", "\n">>
  ELSE DeltaLine(Head(texts)) \o Wire(Tail(texts))

\* the events the route enqueues
DoneEvent == [type |-> "[DONE]"]
TextDelta(text) == [type |-> "text-delta", delta |-> [text |-> text]]

\* chunk.split('\n')
RECURSIVE splitLines(_)
splitLines(s) ==
  IF \A k \in 1..Len(s) : s[k] # "\n" THEN <<s>>
  ELSE LET k == CHOOSE n \in 1..Len(s) :
                  s[n] = "\n" /\ \A m \in 1..(n - 1) : s[m] # "\n"
       IN <<SubSeq(s, 1, k - 1)>> \o splitLines(SubSeq(s, k + 1, Len(s)))

\* line.startsWith('data: ')
startsWith(line, prefix) ==
  Len(line) >= Len(prefix) /\ SubSeq(line, 1, Len(prefix)) = prefix

\* JSON.parse(data) and parsed.choices?.[0]?.delta?.content: the text is
\* parsed only when it is complete
JSONparse(data) ==
  IF /\ Len(data) >= 2
     /\ data[1] = JsonOpen /\ data[Len(data)] = JsonClose
     /\ \A k \in 2..(Len(data) - 1) : data[k] \in DeltaChars
  THEN [ok |-> TRUE, content |-> SubSeq(data, 2, Len(data) - 1)]
  ELSE [ok |-> FALSE, content |-> Undefined]

\* the body of the for loop over the lines: what one line enqueues
lineEvents(line) ==
  IF ~startsWith(line, Prefix) THEN << >>
  ELSE LET data == SubSeq(line, 7, Len(line))
           parsed == JSONparse(data)
       IN IF data = <<Done>> THEN <<DoneEvent>>
          ELSE IF parsed.ok /\ ~Falsy(parsed.content)
          THEN <<TextDelta(parsed.content)>>
          ELSE << >>

RECURSIVE flatten(_)
flatten(ss) == IF ss = << >> THEN << >> ELSE Head(ss) \o flatten(Tail(ss))

\* a loop body that enqueues one event for all the deltas of a read
processChunk_mergeLines(chunk) ==
  LET lines == SelectSeq(splitLines(chunk), LAMBDA l : trim(l) # EmptyText)
      evs == flatten([k \in 1..Len(lines) |-> lineEvents(lines[k])])
      texts == SelectSeq(evs, LAMBDA e : e.type = "text-delta")
  IN IF texts = << >> THEN evs
     ELSE <<TextDelta(flatten([k \in 1..Len(texts) |->
                                 texts[k].delta.text]))>>
          \o SelectSeq(evs, LAMBDA e : e.type # "text-delta")

\* the body of the while loop: what one read enqueues
processChunk(chunk) ==
  LET lines == SelectSeq(splitLines(chunk), LAMBDA l : trim(l) # EmptyText)
  IN flatten([k \in 1..Len(lines) |-> lineEvents(lines[k])])

\* controller.close() on a stream in state closed / not closed: closing a
\* stream that is no longer readable throws a TypeError
controller_close(closed, closers) ==
  IF closed THEN [threw |-> TRUE, closed |-> TRUE, closers |-> closers]
  ELSE [threw |-> FALSE, closed |-> TRUE, closers |-> Append(closers, "route")]

\* the enqueues of one read: controller.enqueue throws on a stream that is
\* no longer readable; around a text-delta the inner try/catch swallows the
\* error, around [DONE] nothing does
RECURSIVE enqueueAll(_, _, _)
enqueueAll(closed, queue, evs) ==
  IF evs = << >> THEN [threw |-> FALSE, queue |-> queue]
  ELSE IF ~closed THEN enqueueAll(closed, Append(queue, Head(evs)), Tail(evs))
  ELSE IF Head(evs).type = "[DONE]" THEN [threw |-> TRUE, queue |-> queue]
  ELSE enqueueAll(closed, queue, Tail(evs))

\* a catch that only logs
streamCatch_logOnly(closed, closers) ==
  [threw |-> FALSE, closed |-> closed, closers |-> closers]

\* catch (error) { console.error('Stream error:', error); controller.close() }
streamCatch(closed, closers) == controller_close(closed, closers)

\* the controller.close() that ends the try block, and the catch when that
\* close throws
streamFinish(closed, closers) ==
  LET c == controller_close(closed, closers)
  IN IF c.threw THEN streamCatch(c.closed, c.closers) ELSE c

\* const reader = openrouterResponse.body?.getReader(); hasBody: the
\* response has a body; without one the throw lands in the catch
StreamGetReader ==
  /\ startPc = "getReader"
  /\ \E hasBody \in BOOLEAN :
       IF hasBody
       THEN /\ startPc' = "reading"
            /\ call' = [fn |-> "getReader", chunk |-> << >>]
            /\ UNCHANGED <<streamClosed, closes, clientVars>>
       ELSE LET c == streamCatch(streamClosed, closes)
            IN /\ startPc' = "done"
               /\ streamClosed' = c.closed
               /\ closes' = c.closers
               /\ call' = [fn |-> "catch", chunk |-> << >>]
  /\ UNCHANGED <<env, pineconeClient, documents, embeddings, pinecone,
                 events, ret, ncalls, users, chatMessages, pc, upstream,
                 deltas, emitted, loopVars, clientVars>>

\* const {done, value} = await reader.read() with done false: the next
\* bytes arrive, as many as the network delivers at once
StreamRead ==
  /\ startPc = "reading"
  /\ upstream # << >>
  /\ \E k \in 1..Len(upstream) :
       LET chunk == SubSeq(upstream, 1, k)
           q == enqueueAll(streamClosed, emitted, processChunk(chunk))
           c == IF q.threw THEN streamCatch(streamClosed, closes)
                ELSE [closed |-> streamClosed, closers |-> closes]
       IN /\ emitted' = q.queue
          /\ upstream' = SubSeq(upstream, k + 1, Len(upstream))
          /\ startPc' = IF q.threw THEN "done" ELSE "reading"
          /\ streamClosed' = c.closed
          /\ closes' = c.closers
          /\ call' = [fn |-> "reader.read", chunk |-> chunk]
  /\ UNCHANGED <<env, pineconeClient, documents, embeddings, pinecone,
                 events, ret, ncalls, users, chatMessages, pc, deltas,
                 loopVars, clientVars>>

\* reader.read() answers done: break and controller.close()
StreamClose ==
  /\ startPc = "reading"
  /\ upstream = << >>
  /\ LET c == streamFinish(streamClosed, closes)
     IN /\ streamClosed' = c.closed
        /\ closes' = c.closers
  /\ startPc' = "done"
  /\ call' = [fn |-> "controller.close", chunk |-> << >>]
  /\ UNCHANGED <<env, pineconeClient, documents, embeddings, pinecone,
                 events, ret, ncalls, users, chatMessages, pc, upstream,
                 deltas, emitted, loopVars, clientVars>>

\* reader.read() throws: the catch closes the stream
StreamError ==
  /\ startPc = "reading"
  /\ upstream # << >>
  /\ LET c == streamCatch(streamClosed, closes)
     IN /\ streamClosed' = c.closed
        /\ closes' = c.closers
  /\ startPc' = "done"
  /\ call' = [fn |-> "catch", chunk |-> << >>]
  /\ UNCHANGED <<env, pineconeClient, documents, embeddings, pinecone,
                 events, ret, ncalls, users, chatMessages, pc, upstream,
                 deltas, emitted, loopVars, clientVars>>

\* the client goes away while the response is streamed: the consumer
\* cancels the stream, which closes it; the source has no cancel() and
\* start() keeps running
StreamCancel ==
  /\ ~streamClosed
  /\ streamClosed' = TRUE
  /\ closes' = Append(closes, "client")
  /\ call' = [fn |-> "cancel", chunk |-> << >>]
  /\ UNCHANGED <<env, pineconeClient, documents, embeddings, pinecone,
                 events, ret, ncalls, users, chatMessages, pc, upstream,
                 deltas, emitted, startPc, loopVars, clientVars>>

\* the completion service answered with a stream of at most MaxDeltas deltas
InitStream ==
  /\ NoClient
  /\ env = [OPENROUTER_API_KEY |-> TRUE, PINECONE_API_KEY |-> TRUE,
            PINECONE_INDEX |-> TRUE]
  /\ pineconeClient = FALSE
  /\ documents = {}
  /\ embeddings = {}
  /\ pinecone = {}
  /\ call = NoCall
  /\ events = << >>
  /\ ret = NoRet
  /\ ncalls = 0
  /\ users = {}
  /\ chatMessages = {}
  /\ pc = << >>
  /\ deltas \in UNION {[1..n -> DeltaTexts] : n \in 0..MaxDeltas}
  /\ upstream = Wire(deltas)
  /\ emitted = << >>
  /\ streamClosed = FALSE
  /\ startPc = "getReader"
  /\ closes = << >>
  /\ chunks = << >>
  /\ idx = 0
  /\ chunkEmbedding = [len |-> 0, val |-> "none"]
  /\ successCount = 0
  /\ failCount = 0

NextStream ==
  \/ StreamGetReader
  \/ StreamRead
  \/ StreamClose
  \/ StreamError
  \/ StreamCancel

SpecStream == InitStream /\ [][NextStream]_vars

\* start() is an async function: the runtime resumes it when the reader is
\* there and whenever a read settles, and the completion service goes on
\* sending until it ends the stream; failures and the client's going away
\* may or may not happen
\* the texts of the deltas play no part in how the stream ends: one text
InitStreamLive == InitStream /\ \A k \in 1..Len(deltas) : deltas[k] = <<"x">>

SpecStreamLive == InitStreamLive /\ [][NextStream]_vars /\ WF_vars(StreamGetReader \/ StreamRead \/ StreamClose)

\* --------------------------------------- chat route: the request handler
\* the roles and texts of the messages of a request body
Roles == {"user", "assistant"}
MessageContents == {EmptyText, <<"h", "i">>}
Messages == UNION {[1..n -> [role : Roles, content : MessageContents]] :
                     n \in 0..MaxMessages}

\* the images of a request body: absent, or a list of data URLs
ImageLists == {Undefined, << >>, <<"img1">>, <<"img1", "img2">>}

\* what retrieveContext can return for the last message
Contexts == {EmptyText, <<"c">>}

\* the ways the completion request can end: fetch throws, or the service
\* answers with a status
FetchOutcomes == {[kind |-> "throw", status |-> 0]} \cup
                 {[kind |-> "response", status |-> s] : s \in {200, 429, 500}}

\* a message content is a string or a list of multimodal parts
TextContent(text) == [kind |-> "string", text |-> text]
PartsContent(text, images) ==
  [kind |-> "parts",
   parts |-> <<[type |-> "text", text |-> text]>> \o
             [k \in 1..Len(images) |->
                [type |-> "image_url", image_url |-> [url |-> images[k]]]]]

\* images && images.length > 0
hasImages(images) == images # Undefined /\ Len(images) > 0

\* messages.filter(msg => msg.role && msg.content).map((msg, index) => ...):
\* index counts the kept messages, messages.length the received ones
userMessages(messages, images) ==
  LET kept == SelectSeq(messages,
                LAMBDA m : m.role # "" /\ ~Falsy(m.content))
  IN [index \in 1..Len(kept) |->
        LET role == IF kept[index].role = "assistant" THEN "assistant"
                    ELSE "user"
        IN IF /\ role = "user" /\ hasImages(images)
              /\ index - 1 = Len(messages) - 1
           THEN [role |-> role,
                 content |-> PartsContent(kept[index].content, images)]
           ELSE [role |-> role,
                 content |-> TextContent(kept[index].content)]]

ContextPrefix == <<"Here is relevant document context:\n\n">>

\* the body of the completion request
CompletionRequest(ragContext, messages, images) ==
  [model |-> IF hasImages(images) THEN "google/gemini-flash-1.5"
             ELSE "microsoft/phi-3-medium-128k-instruct",
   messages |-> <<[role |-> "assistant",
                   content |-> TextContent(ContextPrefix \o ragContext)]>>
                \o userMessages(messages, images),
   stream |-> TRUE]

NoRequest == [model |-> "none", messages |-> << >>, stream |-> FALSE]

\* !openrouterResponse.ok
upstreamFailed(fetched) == fetched.status < 200 \/ fetched.status > 299

\* POST of the chat route; getOk, upsertOk, msgOk: the database serves the
\* statement; ragContext: what retrieveContext returned; fetched: how the
\* completion request ended
chatPost(messages, images, userId, getOk, upsertOk, ragContext, fetched, msgOk) ==
  IF userId = ""
  THEN [response |-> Response(401, ErrorBody("Unauthorized")),
        request |-> NoRequest, users |-> users, msgs |-> chatMessages,
        events |-> << >>]
  ELSE
    LET got == users_getById(users, userId, getOk)
        create == ~got.threw /\ ~got.found
        up == users_upsert(users, userId, TempEmail(userId), "Chat User",
                           "user", upsertOk)
        users1 == IF create THEN up.table ELSE users
        ev1 == <<"db.init", "users.getById">> \o
               (IF create THEN <<"users.upsert">> ELSE << >>) \o
               <<"retrieveContext", "completions.fetch">>
        request == CompletionRequest(ragContext, messages, images)
    IN IF fetched.kind = "throw"
       THEN [response |-> Response(500,
                            ErrorBody("Error processing chat request")),
             request |-> request, users |-> users1, msgs |-> chatMessages,
             events |-> ev1]
       ELSE IF upstreamFailed(fetched)
       THEN [response |-> Response(fetched.status, ErrorBody("errorText")),
             request |-> request, users |-> users1, msgs |-> chatMessages,
             events |-> ev1]
       ELSE
         LET content == IF messages = << >> THEN EmptyText
                        ELSE messages[Len(messages)].content
             msg == chatMessages_create(chatMessages, users1, "msg-t1",
                      userId, "user", content, images,
                      msgOk /\ messages # << >>)
         IN [response |-> Response(200, [stream |-> TRUE]),
             request |-> request, users |-> users1, msgs |-> msg.msgs,
             events |-> ev1 \o <<"chatMessages.create">>]

\* one chat turn
ChatPost ==
  /\ ncalls = 0
  /\ \E messages \in Messages, images \in ImageLists,
        userId \in UserIds \cup {""}, fetched \in FetchOutcomes :
     \E getOk \in IF userId = "" THEN {TRUE} ELSE BOOLEAN,
        upsertOk \in IF userId = "" THEN {TRUE} ELSE BOOLEAN,
        msgOk \in IF userId = "" THEN {TRUE} ELSE BOOLEAN,
        ragContext \in IF userId = "" \/ messages = << >>
                       THEN {EmptyText}
                       ELSE IF trim(messages[Len(messages)].content)
                               = EmptyText
                       THEN {EmptyText} ELSE Contexts :
       LET r == chatPost(messages, images, userId, getOk, upsertOk,
                         ragContext, fetched, msgOk)
       IN /\ users' = r.users
          /\ chatMessages' = r.msgs
          /\ events' = r.events
          /\ ret' = Return(r.response)
          /\ call' = [fn |-> "chat.POST", messages |-> messages,
                      images |-> images, userId |-> userId,
                      fetched |-> fetched, request |-> r.request]
  /\ ncalls' = ncalls + 1
  /\ UNCHANGED <<env, pineconeClient, documents, embeddings, pinecone, pc,
                 streamVars, loopVars, clientVars>>

\* one chat turn of an owner who may or may not have a user row yet
InitChat ==
  /\ NoClient
  /\ env = [OPENROUTER_API_KEY |-> TRUE, PINECONE_API_KEY |-> TRUE,
            PINECONE_INDEX |-> TRUE]
  /\ pineconeClient = FALSE
  /\ documents = {}
  /\ embeddings = {}
  /\ pinecone = {}
  /\ call = NoCall
  /\ events = << >>
  /\ ret = NoRet
  /\ ncalls = 0
  /\ users \in {{}, {UserRow("u1", TempEmail("u1"), "App User", "user")}}
  /\ chatMessages = {}
  /\ pc = << >>
  /\ upstream = << >>
  /\ deltas = << >>
  /\ emitted = << >>
  /\ streamClosed = FALSE
  /\ startPc = "idle"
  /\ closes = << >>
  /\ chunks = << >>
  /\ idx = 0
  /\ chunkEmbedding = [len |-> 0, val |-> "none"]
  /\ successCount = 0
  /\ failCount = 0

NextChat == ChatPost

SpecChat == InitChat /\ [][NextChat]_vars

\* ------------------------------------------------ chunkText (SETUP.md)
IsTerminator(c) == c \in {".", "!", "?"}

\* text.match(/[^.!?]+[.!?]+[\s]?/g): leading terminators and a tail
\* without a terminator belong to no match
RECURSIVE matchSentences(_)
matchSentences(s) ==
  IF \A k \in 1..Len(s) : IsTerminator(s[k]) THEN << >>
  ELSE
    LET p == CHOOSE k \in 1..Len(s) :
               ~IsTerminator(s[k]) /\ \A j \in 1..(k - 1) : IsTerminator(s[j])
        q == CHOOSE k \in p..Len(s) :
               /\ \A j \in p..k : ~IsTerminator(s[j])
               /\ (k = Len(s) \/ IsTerminator(s[k + 1]))
    IN IF q = Len(s) THEN << >>
       ELSE
         LET r == CHOOSE k \in (q + 1)..Len(s) :
                    /\ \A j \in (q + 1)..k : IsTerminator(s[j])
                    /\ (k = Len(s) \/ ~IsTerminator(s[k + 1]))
             e == IF r < Len(s) /\ IsWs(s[r + 1]) THEN r + 1 ELSE r
         IN <<SubSeq(s, p, e)>> \o matchSentences(SubSeq(s, e + 1, Len(s)))

\* words.join(' ')
RECURSIVE joinSpace(_)
joinSpace(ws) ==
  IF ws = << >> THEN EmptyText
  ELSE IF Len(ws) = 1 THEN ws[1]
  ELSE ws[1] \o <<" ">> \o joinSpace(Tail(ws))

\* words.slice(-n): the last n words; slice(-0) is slice(0), all of them
sliceLast(ws, n) ==
  IF n = 0 \/ n >= Len(ws) THEN ws ELSE SubSeq(ws, Len(ws) - n + 1, Len(ws))

\* the for loop over the words of a sentence longer than maxChunkSize,
\* from word k on: out are the chunks pushed, temp is tempChunk
RECURSIVE packWords(_, _, _, _, _)
packWords(ws, k, maxChunkSize, out, temp) ==
  IF k > Len(ws) THEN [out |-> out, temp |-> temp]
  ELSE IF Len(temp) + 1 + Len(ws[k]) > maxChunkSize
  THEN packWords(ws, k + 1, maxChunkSize,
                 IF temp # EmptyText THEN Append(out, trim(temp)) ELSE out,
                 ws[k])
  ELSE packWords(ws, k + 1, maxChunkSize, out,
                 temp \o (IF temp # EmptyText THEN <<" ">> ELSE << >>)
                      \o ws[k])

\* the body of the for loop over the sentences
sentenceStep(st, sentence, maxChunkSize, overlap) ==
  LET trimmedSentence == trim(sentence)
  IN IF trimmedSentence = EmptyText THEN st
     ELSE IF Len(st.cur) + 1 + Len(trimmedSentence) > maxChunkSize
     THEN IF st.cur # EmptyText
          THEN [out |-> Append(st.out, trim(st.cur)),
                cur |-> joinSpace(sliceLast(split(trim(st.cur)),
                                            (overlap + 9) \div 10))
                        \o <<" ">> \o trimmedSentence]
          ELSE IF Len(trimmedSentence) > maxChunkSize
          THEN LET pk == packWords(split(trimmedSentence), 1, maxChunkSize,
                                   st.out, EmptyText)
               IN [out |-> pk.out,
                   cur |-> IF pk.temp # EmptyText THEN pk.temp ELSE st.cur]
          ELSE [out |-> st.out, cur |-> trimmedSentence]
     ELSE [out |-> st.out,
           cur |-> st.cur \o (IF st.cur # EmptyText THEN <<" ">> ELSE << >>)
                          \o trimmedSentence]

RECURSIVE sentenceLoop(_, _, _, _, _)
sentenceLoop(ss, k, st, maxChunkSize, overlap) ==
  IF k > Len(ss) THEN st
  ELSE sentenceLoop(ss, k + 1,
                    sentenceStep(st, ss[k], maxChunkSize, overlap),
                    maxChunkSize, overlap)

\* a chunkText that returns the chunks without filtering the short ones
chunkText_noFilter(text, maxChunkSize, overlap) ==
  IF text = EmptyText \/ trim(text) = EmptyText THEN << >>
  ELSE
    LET m == matchSentences(text)
        st == sentenceLoop(IF m = << >> THEN <<text>> ELSE m, 1,
                           [out |-> << >>, cur |-> EmptyText],
                           maxChunkSize, overlap)
        all == IF trim(st.cur) # EmptyText
               THEN Append(st.out, trim(st.cur)) ELSE st.out
    IN IF all = << >> THEN <<trim(text)>> ELSE all

\* chunkText(text, maxChunkSize, overlap)
chunkText(text, maxChunkSize, overlap) ==
  IF text = EmptyText \/ trim(text) = EmptyText THEN << >>
  ELSE
    LET m == matchSentences(text)
        st == sentenceLoop(IF m = << >> THEN <<text>> ELSE m, 1,
                           [out |-> << >>, cur |-> EmptyText],
                           maxChunkSize, overlap)
        all == IF trim(st.cur) # EmptyText
               THEN Append(st.out, trim(st.cur)) ELSE st.out
        filteredChunks == SelectSeq(all, LAMBDA c : Len(c) >= MinChunkLength)
    IN IF filteredChunks = << >> THEN <<trim(text)>> ELSE filteredChunks

\* the inputs: texts made of a 25-letter word, a 51-character sentence,
\* spaces and full stops
Word25 == [k \in 1..25 |-> "a"]
Sentence51 == [k \in 1..50 |-> "b"] \o <<".">>
Pieces == {Word25, Sentence51, <<" ">>, <<".">>}

RECURSIVE TextsOfPieces(_)
TextsOfPieces(n) ==
  IF n = 0 THEN {EmptyText}
  ELSE {t \o p : t \in TextsOfPieces(n - 1), p \in Pieces}

ChunkInputs == UNION {TextsOfPieces(n) : n \in 0..MaxPieces}
MaxChunkSizes == {30, 60}
Overlaps == {0, 10, 200}

\* a caller runs chunkText(text, maxChunkSize, overlap)
ChunkText ==
  /\ ncalls = 0
  /\ \E text \in ChunkInputs, maxChunkSize \in MaxChunkSizes,
        overlap \in Overlaps :
       /\ ret' = Return(chunkText(text, maxChunkSize, overlap))
       /\ call' = [fn |-> "chunkText", text |-> text,
                   maxChunkSize |-> maxChunkSize, overlap |-> overlap]
  /\ ncalls' = ncalls + 1
  /\ UNCHANGED <<routeVars, env, pineconeClient, documents, embeddings,
                 pinecone, events>>

\* one call of chunkText: it reads no store
InitChunk ==
  /\ env = [OPENROUTER_API_KEY |-> TRUE, PINECONE_API_KEY |-> TRUE,
            PINECONE_INDEX |-> TRUE]
  /\ pineconeClient = FALSE
  /\ documents = {}
  /\ embeddings = {}
  /\ pinecone = {}
  /\ call = NoCall
  /\ events = << >>
  /\ ret = NoRet
  /\ ncalls = 0
  /\ NoRoute

NextChunk == ChunkText

SpecChunk == InitChunk /\ [][NextChunk]_vars

\* ------------------------------------------ ChatInterface.tsx: chat client
\* the texts a user sends, and the delta texts of a reply
SentContents == {<<"h", "i">>}
ReplyDeltas == {<<"o", "k">>}

\* a message of the history; typing marks the typing indicator
ClientMessage(role, content) == [role |-> role, content |-> content]
FallbackReply == <<"I received your message.">>
ErrorReply == <<"Sorry, there was an error processing your message. Please try again.">>
NewChatTitle == <<"New Chat">>

\* a ChatSession: id is Date.now().toString(), given as the number
ChatSession(id, title, messages) ==
  [id |-> id, title |-> title, messages |-> messages]

\* content.substring(0, 50)
substring50(s) == SubSeq(s, 1, Min(Len(s), TitleLength))

\* updateSession(sessionId, newMessages): the list it stores in the sessions
\* state and in localStorage; list is the sessions value of the render the
\* function was created in
updateSession(list, sessionId, newMessages) ==
  LET title == IF newMessages # << >> /\ newMessages[1].content # EmptyText
               THEN substring50(newMessages[1].content) ELSE NewChatTitle
  IN [k \in 1..Len(list) |->
        IF list[k].id = sessionId
        THEN ChatSession(sessionId, title, newMessages) ELSE list[k]]

\* the value of a state after a handler run that called its setter with
\* each of these values in turn: every call replaces the value before it
lastSet(values) == values[Len(values)]

\* createNewChat
CreateNewChat ==
  /\ now < MaxSessions
  /\ now' = now + 1
  /\ sessions' = <<ChatSession(now + 1, NewChatTitle, << >>)>> \o sessions
  /\ currentSessionId' = now + 1
  /\ messageHistory' = << >>
  /\ call' = [fn |-> "createNewChat"]
  /\ UNCHANGED <<env, pineconeClient, documents, embeddings, pinecone,
                 events, ret, ncalls, users, chatMessages, pc, streamVars,
                 loopVars, chatSessions, send>>

\* selectSession(sessionId), from the sidebar's list
SelectSession ==
  /\ \E k \in 1..Len(sessions) :
       /\ currentSessionId' = sessions[k].id
       /\ messageHistory' = sessions[k].messages
       /\ call' = [fn |-> "selectSession", sessionId |-> sessions[k].id]
  /\ UNCHANGED <<env, pineconeClient, documents, embeddings, pinecone,
                 events, ret, ncalls, users, chatMessages, pc, streamVars,
                 loopVars, sessions, chatSessions, send, now>>

\* deleteSession(sessionId), from the sidebar's list
DeleteSession ==
  /\ \E k \in 1..Len(sessions) :
       LET sessionId == sessions[k].id
           filtered == SelectSeq(sessions, LAMBDA s : s.id # sessionId)
       IN /\ sessions' = filtered
          /\ chatSessions' = filtered
          /\ currentSessionId' =
               IF currentSessionId = sessionId THEN 0 ELSE currentSessionId
          /\ messageHistory' =
               IF currentSessionId = sessionId THEN << >> ELSE messageHistory
          /\ call' = [fn |-> "deleteSession", sessionId |-> sessionId]
  /\ UNCHANGED <<env, pineconeClient, documents, embeddings, pinecone,
                 events, ret, ncalls, users, chatMessages, pc, streamVars,
                 loopVars, send, now>>

\* handleSendMessage(content, []) of a signed-in user, up to the await of
\* fetch('/api/chat'); its sessions and its updateSession are those of the
\* render the callback was created in
SendStart ==
  /\ send.pc # "fetching"
  /\ now < MaxSessions
  /\ \E content \in SentContents :
       LET created == currentSessionId = 0
           sessionId == IF created THEN now + 1 ELSE currentSessionId
           newMessages == Append(messageHistory,
                                 ClientMessage("user", content))
           \* setSessions([newSession, ...sessions]) of a created session
           withNew == IF created
                      THEN <<ChatSession(sessionId, substring50(content),
                                         << >>)>> \o sessions
                      ELSE sessions
           \* updateSession maps over the sessions of its render, not over
           \* withNew, and its setSessions replaces the value set before
           updated == updateSession(sessions, sessionId, newMessages)
       IN /\ sessions' = lastSet(<<withNew, updated>>)
          /\ chatSessions' = updated
          /\ currentSessionId' = sessionId
          /\ messageHistory' = Append(newMessages,
                                      ClientMessage("assistant", EmptyText))
          /\ send' = [pc |-> "fetching", sessions |-> sessions,
                      sessionId |-> sessionId, newMessages |-> newMessages,
                      created |-> created, assistantContent |-> EmptyText,
                      reads |-> 0]
          /\ call' = [fn |-> "handleSendMessage", content |-> content]
  /\ now' = now + 1
  /\ UNCHANGED <<env, pineconeClient, documents, embeddings, pinecone,
                 events, ret, ncalls, users, chatMessages, pc, streamVars,
                 loopVars>>

\* a read of the response stream delivers a text-delta event
SendDelta ==
  /\ send.pc = "fetching"
  /\ send.reads < MaxDeltas
  /\ \E text \in ReplyDeltas :
       LET assistantContent == send.assistantContent \o text
       IN /\ send' = [send EXCEPT !.assistantContent = assistantContent,
                                  !.reads = @ + 1]
          /\ messageHistory' =
               Append(send.newMessages,
                      ClientMessage("assistant", assistantContent))
  /\ call' = [fn |-> "reader.read"]
  /\ UNCHANGED <<env, pineconeClient, documents, embeddings, pinecone,
                 events, ret, ncalls, users, chatMessages, pc, streamVars,
                 loopVars, sessions, currentSessionId, chatSessions, now>>

\* the response stream is done: the reply is finalized and stored
SendFinish ==
  /\ send.pc = "fetching"
  /\ LET content == IF send.assistantContent = EmptyText THEN FallbackReply
                    ELSE send.assistantContent
         finalMessages == Append(send.newMessages,
                                 ClientMessage("assistant", content))
         updated == updateSession(send.sessions, send.sessionId,
                                  finalMessages)
     IN /\ messageHistory' = finalMessages
        /\ sessions' = updated
        /\ chatSessions' = updated
  /\ send' = [send EXCEPT !.pc = "done"]
  /\ call' = [fn |-> "send.finish"]
  /\ UNCHANGED <<env, pineconeClient, documents, embeddings, pinecone,
                 events, ret, ncalls, users, chatMessages, pc, streamVars,
                 loopVars, currentSessionId, now>>

\* the fetch or a read fails, or the response is not ok: the catch stores
\* an error message as the reply
SendFail ==
  /\ send.pc = "fetching"
  /\ LET errorMessages == Append(send.newMessages,
                                 ClientMessage("assistant", ErrorReply))
         updated == updateSession(send.sessions, send.sessionId,
                                  errorMessages)
     IN /\ messageHistory' = errorMessages
        /\ sessions' = updated
        /\ chatSessions' = updated
  /\ send' = [send EXCEPT !.pc = "failed"]
  /\ call' = [fn |-> "send.catch"]
  /\ UNCHANGED <<env, pineconeClient, documents, embeddings, pinecone,
                 events, ret, ncalls, users, chatMessages, pc, streamVars,
                 loopVars, currentSessionId, now>>

\* the page is loaded again: the mount effect reads chatSessions
Reload ==
  /\ send.pc # "fetching"
  /\ sessions' = chatSessions
  /\ currentSessionId' = 0
  /\ messageHistory' = << >>
  /\ send' = [pc |-> "idle"]
  /\ call' = [fn |-> "useEffect"]
  /\ UNCHANGED <<env, pineconeClient, documents, embeddings, pinecone,
                 events, ret, ncalls, users, chatMessages, pc, streamVars,
                 loopVars, chatSessions, now>>

\* the chat page just loaded, with no or one session saved by an earlier
\* visit; no session is current
InitClient ==
  /\ env = [OPENROUTER_API_KEY |-> TRUE, PINECONE_API_KEY |-> TRUE,
            PINECONE_INDEX |-> TRUE]
  /\ pineconeClient = FALSE
  /\ documents = {}
  /\ embeddings = {}
  /\ pinecone = {}
  /\ call = NoCall
  /\ events = << >>
  /\ ret = NoRet
  /\ ncalls = 0
  /\ users = {}
  /\ chatMessages = {}
  /\ pc = << >>
  /\ upstream = << >>
  /\ deltas = << >>
  /\ emitted = << >>
  /\ streamClosed = FALSE
  /\ startPc = "idle"
  /\ closes = << >>
  /\ chunks = << >>
  /\ idx = 0
  /\ chunkEmbedding = [len |-> 0, val |-> "none"]
  /\ successCount = 0
  /\ failCount = 0
  /\ chatSessions \in {<< >>,
       <<ChatSession(1, <<"h", "i">>,
           <<ClientMessage("user", <<"h", "i">>),
             ClientMessage("assistant", <<"o", "k">>)>>)>>}
  /\ sessions = chatSessions
  /\ currentSessionId = 0
  /\ messageHistory = << >>
  /\ send = [pc |-> "idle"]
  /\ now = 1

NextClient ==
  \/ CreateNewChat
  \/ SelectSession
  \/ DeleteSession
  \/ SendStart
  \/ SendDelta
  \/ SendFinish
  \/ SendFail
  \/ Reload

SpecClient == InitClient /\ [][NextClient]_vars

\* ================================================================= claims
Range(s) == {s[i] : i \in DOMAIN s}

\* a match comes from the primary store (it has a similarity column) or
\* from the secondary index (it has a score)
FromPrimary(m) == "similarity" \in DOMAIN m
FromSecondary(m) == "score" \in DOMAIN m

\* the vector is missing or its length is not 1536
WrongLength(v) == v = NoVector \/ v.len # 1536

StoreCall == call.fn = "storeEmbedding"
QueryCall == call.fn = "queryEmbeddings"

\* the primary write of the last storeEmbedding / db.embeddings.create failed
PrimaryWriteFailed ==
  call.fault = "pgFail" \/ call.metadata.documentId \notin documents

\* C1: a queryEmbeddings call with a 1536-long vector asks the primary
\* store first; when the primary returns at least one row the result is
\* exactly those rows and the secondary index is not queried; when the
\* primary returns no row and the secondary is configured and answers with
\* matches, the result is those matches; the result never mixes the stores.
C1_PrimaryOrSecondary ==
  (QueryCall /\ ~WrongLength(call.queryEmbedding)) =>
    /\ events # << >> /\ events[1] = "pg.select"
    /\ (call.sel.ok /\ call.sel.rows # << >>) =>
         /\ ret = Return(call.sel.rows)
         /\ "pinecone.query" \notin Range(events)
    /\ (/\ call.sel.ok /\ call.sel.rows = << >>
        /\ env.PINECONE_INDEX /\ pineconeClient
        /\ call.qry.ok /\ call.qry.matches # << >>) =>
         ret = Return(call.qry.matches)
    /\ ret.kind = "return"
    /\ \/ \A m \in Range(ret.value) : FromPrimary(m)
       \/ \A m \in Range(ret.value) : FromSecondary(m)

\* the primary returned nothing and the answer came from the secondary
C1_Witness ==
  /\ QueryCall /\ ~WrongLength(call.queryEmbedding)
  /\ call.sel.ok /\ call.sel.rows = << >>
  /\ ret.kind = "return" /\ ret.value # << >>
  /\ events = <<"pg.select", "pinecone.query">>

\* C2: when the primary write of storeEmbedding fails, storeEmbedding
\* fails too and no upsert to the secondary index is attempted.
C2_PrimaryFailurePropagates ==
  (StoreCall /\ ~WrongLength(call.embedding) /\ PrimaryWriteFailed) =>
    /\ ret.kind = "throw"
    /\ "pinecone.upsert" \notin Range(events)

C2_Witness ==
  /\ StoreCall /\ ~WrongLength(call.embedding) /\ call.fault = "pgFail"
  /\ env.PINECONE_INDEX /\ env.PINECONE_API_KEY
  /\ events = <<"pg.insert">>
  /\ ret.kind = "throw"

\* C3: when the primary write succeeds and the secondary index is
\* configured but its client construction or its upsert fails,
\* storeEmbedding returns normally and the primary row stays in place.
C3_SecondaryFailureSwallowed ==
  (/\ StoreCall /\ ~WrongLength(call.embedding) /\ ~PrimaryWriteFailed
   /\ env.PINECONE_INDEX /\ call.fault \in {"ctorFail", "upsertFail"}) =>
    /\ ret.kind = "return"
    /\ \E r \in embeddings :
         /\ r.id = call.id
         /\ r.embedding = call.embedding
         /\ r.content = call.metadata.content

C3_Witness ==
  /\ StoreCall /\ call.fault = "upsertFail"
  /\ events = <<"pg.insert", "pinecone.upsert">>
  /\ call.id \notin {r.id : r \in pinecone}
  /\ ret.kind = "return"

\* C4: storeEmbedding and queryEmbeddings called with a vector that is
\* missing or whose length is not 1536 send nothing to the primary store
\* and nothing to the secondary index.
C4_InvalidVectorNoStoreCall ==
  /\ (StoreCall /\ WrongLength(call.embedding)) => events = << >>
  /\ (QueryCall /\ WrongLength(call.queryEmbedding)) => events = << >>

C4_Witness ==
  /\ QueryCall /\ call.queryEmbedding.len = 768
  /\ env.PINECONE_INDEX /\ env.PINECONE_API_KEY
  /\ events = << >>

\* C5: storeEmbedding and queryEmbeddings end with an error delivered to
\* their caller when the vector's length is not 1536.
C5_InvalidVectorIsAnError ==
  /\ (StoreCall /\ WrongLength(call.embedding)) => ret.kind = "throw"
  /\ (QueryCall /\ WrongLength(call.queryEmbedding)) => ret.kind = "throw"

\* the last call was a write to the primary store that succeeded
WriteDone ==
  /\ call.fn \in {"storeEmbedding", "embeddings.create"}
  /\ ~WrongLength(call.embedding)
  /\ ~PrimaryWriteFailed

\* C6: a successful write of an id to the primary store, also when the id
\* is already stored with another vector, leaves exactly one row for the
\* id, carrying the vector, content and metadata of this write, and leaves
\* the rows of every other id as they were.
C6_UpsertById ==
  [][WriteDone' =>
       /\ \E r \in embeddings' :
            /\ RowsOf(embeddings', call'.id) = {r}
            /\ r.embedding = call'.embedding
            /\ r.content = call'.metadata.content
            /\ r.metadata = [fileName |-> call'.metadata.fileName]
       /\ \A o \in Ids \ {call'.id} :
            RowsOf(embeddings', o) = RowsOf(embeddings, o)]_vars

\* the id was stored before, with another vector, and another id is stored
C6_Witness ==
  /\ WriteDone
  /\ \E r \in call.before : r.embedding # call.embedding
  /\ \E r \in embeddings : r.id # call.id

\* ------------------------------------------------- claims on retrieval
EmbedCall == call.fn = "embedText"
RetrieveCall == call.fn = "retrieveContext"

\* the text is empty or whitespace only
Blank(t) == \A i \in 1..Len(t) : t[i] \in {" ", "\t", "\n"}

\* the embeddings request of the last call did not yield a 1536-long vector
NoGoodVector ==
  \/ ~env.OPENROUTER_API_KEY
  \/ call.http.kind # "ok"
  \/ WrongLength(call.http.embedding)

\* C7: every embedText call fails or returns a vector of length 1536; it
\* fails when the input is blank, the credential is absent, the request is
\* not successful, the response has no vector or a vector of another length.
C7_EmbedTextContract ==
  EmbedCall =>
    /\ ret.kind \in {"throw", "return"}
    /\ ret.kind = "return" => ret.value # NoVector /\ ret.value.len = 1536
    /\ (Blank(call.text) \/ NoGoodVector) => ret.kind = "throw"

\* the service answered with a vector of the wrong length
C7_Witness ==
  /\ EmbedCall /\ ~Blank(call.text) /\ env.OPENROUTER_API_KEY
  /\ call.http.kind = "ok" /\ call.http.embedding.len = 768
  /\ events = <<"embeddings.fetch">>
  /\ ret.kind = "throw"

\* the last retrieveContext fell back to the secondary index
FellBack == events = <<"embeddings.fetch", "pg.select", "pinecone.query">>

\* C8: retrieveContext always returns; when the embedding call fails, when
\* both stores fail to answer, or when re-ranking fails on matches that
\* carry no content, it returns the empty string.
C8_RetrieveNeverThrows ==
  RetrieveCall =>
    /\ ret.kind = "return"
    /\ (~Blank(call.query) /\ NoGoodVector) => ret.value = EmptyText
    /\ (~call.sel.ok /\ ~call.qry.ok) => ret.value = EmptyText
    /\ (FellBack /\ call.qry.ok /\ Len(call.qry.matches) >= 2) =>
         ret.value = EmptyText

\* the embeddings request was sent and failed
C8_Witness ==
  /\ RetrieveCall /\ ~Blank(call.query)
  /\ call.http.kind = "notOk"
  /\ events = <<"embeddings.fetch">>
  /\ ret = Return(EmptyText)

\* C9: retrieveContext with an empty or whitespace-only query returns the
\* empty string and sends nothing to the embedding service or to a store.
C9_BlankQueryNoCalls ==
  (RetrieveCall /\ Blank(call.query)) =>
    ret = Return(EmptyText) /\ events = << >>

\* a whitespace-only query while the embedding service is usable
C9_Witness ==
  /\ RetrieveCall /\ call.query = <<" ", " ">>
  /\ env.OPENROUTER_API_KEY /\ call.http.kind = "ok"
  /\ events = << >>

\* the lexical score of the claim, in tenths: 10 when the content contains
\* the whole query, plus 1 for each space-separated query word it contains
\* (case-insensitive)
LexicalScore(q, c) ==
  LET lq == toLowerCase(q)
      lc == toLowerCase(c)
      words == split(lq)
  IN (IF includes(lc, lq) THEN 10 ELSE 0)
     + Cardinality({k \in 1..Len(words) : includes(lc, words[k])})

\* the content contains a (non-empty) word of the query
SharesWord(q, c) ==
  LET words == split(toLowerCase(q))
  IN \E k \in 1..Len(words) :
       words[k] # EmptyText /\ includes(toLowerCase(c), words[k])

\* C10: the matches retrieveContext re-ranked are in order of non-increasing
\* lexical score against the original query, so a match that shares a query
\* word precedes every match that shares none.
C10_RerankByLexicalScore ==
  (RetrieveCall /\ Len(call.matches) >= 2) =>
    \A i, j \in 1..Len(call.matches) :
      /\ i < j => LexicalScore(call.query, call.matches[i].content)
                    >= LexicalScore(call.query, call.matches[j].content)
      /\ (/\ SharesWord(call.query, call.matches[i].content)
          /\ ~SharesWord(call.query, call.matches[j].content)) => i < j

\* the search returned a match sharing no word ahead of one sharing a word,
\* and re-ranking swapped them
C10_Witness ==
  /\ RetrieveCall /\ Len(call.matches) = 2
  /\ call.sel.ok /\ Len(call.sel.rows) = 2
  /\ ~SharesWord(call.query, call.sel.rows[1].content)
  /\ SharesWord(call.query, call.sel.rows[2].content)
  /\ call.matches = <<call.sel.rows[2], call.sel.rows[1]>>

\* C11: when retrieveContext fell back to the secondary index and the index
\* answered with two or more matches, whose text is carried only under
\* metadata, the returned context contains the text of each of those matches,
\* and it is their non-empty texts joined with a blank line.
C11_FallbackContextCarriesTexts ==
  (/\ RetrieveCall /\ FellBack
   /\ call.qry.ok /\ Len(call.qry.matches) >= 2) =>
    /\ \A k \in 1..Len(call.qry.matches) :
         includes(ret.value, call.qry.matches[k].metadata.content)
    /\ \E o \in Orderings(Range(call.qry.matches), Len(call.qry.matches)) :
         ret.value = join([k \in 1..Len(o) |-> o[k].metadata.content])

\* ------------------------------------------ claims on the request routes
\* C12: for an owner id that has no user row yet, every interleaving of
\* concurrent chat turns and uploads of that owner keeps at most one user
\* row for the id, leaves exactly one after any write to the users table,
\* never removes it, and writes a chat message row or a document row only
\* while the user row exists.
C12_OneUserRowBeforeOwnedRows ==
  /\ [](\A u \in UserIds : Cardinality(RowsOf(users, u)) <= 1)
  /\ [][\A u \in UserIds :
          /\ users' # users => Cardinality(RowsOf(users', u)) = 1
          /\ RowsOf(users, u) # {} => RowsOf(users', u) # {}
          /\ (chatMessages' # chatMessages \/ documents' # documents) =>
               /\ RowsOf(users, u) # {}
               /\ \A m \in chatMessages' : m.user_id = u]_vars

\* a request that had found no user row upserts after another request
\* created the row; one row is left and a message of the owner is stored
C12_Witness ==
  /\ call.fn = "users.upsert" /\ call.before # {}
  /\ \A u \in UserIds : Cardinality(RowsOf(users, u)) = 1
  /\ chatMessages # {}
  /\ documents # {}

\* the texts of the text-delta events enqueued so far, in order
EmittedTexts ==
  LET evs == SelectSeq(emitted, LAMBDA e : e.type = "text-delta")
  IN [k \in 1..Len(evs) |-> evs[k].delta.text]

\* the upstream stream was read to its end and the response stream closed
StreamEnded == streamClosed /\ upstream = << >> /\ closes = <<"route">>

\* C13: when an upstream stream of n deltas (each with a non-empty text)
\* has ended, however its bytes were split into reads, the route has
\* enqueued exactly n text-delta events, in upstream order, followed by
\* exactly one [DONE] marker.
C13_AllDeltasThenDone ==
  (StreamEnded /\ \A k \in 1..Len(deltas) : deltas[k] # EmptyText) =>
    emitted = [k \in 1..Len(deltas) |->
                 [type |-> "text-delta", delta |-> [text |-> deltas[k]]]]
              \o <<[type |-> "[DONE]"]>>

\* a is b with some elements left out
RECURSIVE IsSubsequence(_, _)
IsSubsequence(a, b) ==
  IF a = << >> THEN TRUE
  ELSE IF b = << >> THEN FALSE
  ELSE IF Head(a) = Head(b) THEN IsSubsequence(Tail(a), Tail(b))
  ELSE IsSubsequence(a, Tail(b))

\* C14: the texts of the text-delta events a chat turn has enqueued are, in
\* order, a subsequence of the upstream delta texts; no event carries the
\* text of two upstream deltas.
C14_EmittedInUpstreamOrder ==
  /\ \A k \in 1..Len(emitted) :
       emitted[k].type \in {"text-delta", "[DONE]"}
  /\ IsSubsequence(EmittedTexts, deltas)

\* two different deltas arrived in one read and were enqueued in order
C14_Witness ==
  /\ StreamEnded
  /\ Len(deltas) = 2 /\ deltas[1] # deltas[2]
  /\ EmittedTexts = deltas
  /\ \E e \in Range(emitted) : e.type = "[DONE]"

ChatCall == call.fn = "chat.POST"

\* the url of every image part of a message of the completion request
ImageUrls(m) ==
  IF m.content.kind # "parts" THEN << >>
  ELSE LET imgs == SelectSeq(m.content.parts,
                             LAMBDA p : p.type = "image_url")
       IN [k \in 1..Len(imgs) |-> imgs[k].image_url.url]

\* C15: when the history of a chat request ends with a user turn and its
\* image list is not empty, the completion request starts with the context
\* message and carries all the images, as image parts, on the last user
\* turn and on no other message.
C15_ImagesOnLastUserTurn ==
  (/\ ChatCall /\ call.userId # "" /\ call.messages # << >>
   /\ call.messages[Len(call.messages)].role = "user"
   /\ call.images # Undefined /\ call.images # << >>) =>
    LET req == call.request.messages
    IN /\ req[1].role = "assistant"
       /\ req[1].content.kind = "string"
       /\ req[1].content.text[1] = "Here is relevant document context:\n\n"
       /\ Len(req) >= 2
       /\ req[Len(req)].role = "user"
       /\ ImageUrls(req[Len(req)]) = call.images
       /\ \A k \in 1..(Len(req) - 1) : ImageUrls(req[k]) = << >>

\* C16: when the completion service answers with a status that is not a
\* success, the chat route answers with a JSON {error} body and status 500,
\* whatever the upstream status was.
C16_UpstreamErrorIs500 ==
  (/\ ChatCall /\ call.userId # ""
   /\ call.fetched.kind = "response"
   /\ call.fetched.status \notin 200..299) =>
    /\ ret.value.status = 500
    /\ DOMAIN ret.value.body = {"error"}

\* ------------------------------------------ claims on the upload route
\* the last step handled the uploaded file
FileCall == call.fn = "upload.file"

\* C17: an upload of an image larger than 10MB (10*1024*1024 bytes) is
\* rejected, and before the rejection nothing was sent to the primary
\* store (schema initialization, user read or upsert, document or chunk
\* write) or to the secondary index.
C17_LargeImageRejectedBeforeStores ==
  (FileCall /\ call.mimeType = "image/png"
   /\ call.size > 10 * 1024 * 1024) =>
    /\ ret.kind = "return"
    /\ ret.value.status >= 400
    /\ events = << >>

\* the upload answered after its chunk loop
UploadDone == call.fn = "upload.respond"

\* C18: the response of an upload that reached chunk processing counts
\* every chunk once, as succeeded or as failed: successCount + failCount =
\* totalChunks = the number of chunks; the loop went through all the chunks
\* whatever failed, and the response reports success.
C18_EveryChunkCountedOnce ==
  /\ UploadDone =>
       /\ ret.value.status = 200 /\ ret.value.body.success
       /\ ret.value.body.totalChunks = Len(chunks)
       /\ ret.value.body.successCount + ret.value.body.failCount
            = Len(chunks)
       /\ idx = Len(chunks)
  /\ successCount + failCount = idx
  /\ idx <= Len(chunks)

\* the first chunk failed, the second was stored
C18_Witness ==
  /\ UploadDone
  /\ Len(chunks) = 2
  /\ ret.value.body.failCount = 1 /\ ret.value.body.successCount = 1
  /\ \E r \in embeddings : r.chunk_index = 1
  /\ \A r \in embeddings : r.chunk_index # 0

\* the rows of the embeddings table that a step wrote or changed
Written(before, after) == after \ before

\* C19: within one document's ingestion the chunks are handled one at a
\* time in increasing index order: every write to the primary store or to
\* the secondary index made while the loop is at index i carries the id
\* documentId-chunk-i, the chunk index i and the text chunks[i], and the
\* index moves on, by one, only when the handling of chunk i has ended.
C19_ChunksInIndexOrder ==
  [][/\ \A r \in Written(embeddings, embeddings') :
          /\ r.id = "d1-chunk-" \o ToString(idx)
          /\ r.document_id = "d1"
          /\ r.chunk_index = idx
          /\ idx < Len(chunks) /\ r.content = chunks[idx + 1]
     /\ \A r \in Written(pinecone, pinecone') :
          /\ r.id = "d1-chunk-" \o ToString(idx)
          /\ r.metadata.chunkIndex = idx
          /\ idx < Len(chunks) /\ r.metadata.content = chunks[idx + 1]
     /\ idx' \in {idx, idx + 1}
     /\ idx' = idx + 1 =>
          /\ embeddings' = embeddings \/ call'.fn = "embeddings.create"
          /\ \A u \in DOMAIN pc' : pc'[u] = "embed"
     /\ chunks # << >> => chunks' = chunks]_vars

\* both chunks of a document were stored, in both stores
C19_Witness ==
  /\ UploadDone
  /\ Len(chunks) = 2 /\ chunks[1] # chunks[2]
  /\ {[id |-> r.id, n |-> r.chunk_index, content |-> r.content] :
        r \in embeddings}
       = {[id |-> "d1-chunk-0", n |-> 0, content |-> chunks[1]],
          [id |-> "d1-chunk-1", n |-> 1, content |-> chunks[2]]}
  /\ Cardinality(pinecone) = 2

\* C20: when an ingestion has finished, the chunk_index values of the rows
\* the primary store holds for the document are unique and dense: the k
\* rows carry exactly the indices 0..k-1.
C20_ChunkIndexDense ==
  UploadDone =>
    LET rows == {r \in embeddings : r.document_id = "d1"}
    IN /\ \A r, q \in rows : r.chunk_index = q.chunk_index => r = q
       /\ {r.chunk_index : r \in rows} = 0..(Cardinality(rows) - 1)

\* ------------------------------------------------- claims on chunkText
ChunkCall == call.fn = "chunkText"

\* C21: for every input text that is not the empty string, also one made
\* of whitespace only, chunkText returns at least one chunk.
C21_NonEmptyTextNonEmptyResult ==
  (ChunkCall /\ call.text # EmptyText) => ret.value # << >>

\* C22: for every input text, maxChunkSize and overlap, either every chunk
\* chunkText returns has at least 50 characters, or the result is the one
\* element list holding the trimmed input.
C22_ChunksLongOrWholeText ==
  ChunkCall =>
    \/ \A k \in 1..Len(ret.value) : Len(ret.value[k]) >= 50
    \/ ret.value = <<trim(call.text)>>

\* a text was cut into two chunks of at least 50 characters, and a short
\* text came back whole
C22_Witness ==
  /\ ChunkCall
  /\ Len(ret.value) = 2
  /\ \A k \in 1..2 : Len(ret.value[k]) >= 50
  /\ Len(call.text) > Len(ret.value[1]) + Len(ret.value[2])

\* C23: no chunk chunkText returns is longer than maxChunkSize, unless the
\* result is the single chunk holding the whole trimmed text.
C23_NoChunkOverMaxSize ==
  ChunkCall =>
    \/ \A k \in 1..Len(ret.value) : Len(ret.value[k]) <= call.maxChunkSize
    \/ ret.value = <<trim(call.text)>>

\* ------------------------------------- further claims on the storage API
\* C24: when the read of the primary store fails during a search,
\* queryEmbeddings delivers the failure to its caller: it does not answer
\* with matches of the secondary index nor with an ordinary empty result.
C24_PrimaryReadFailureIsFatal ==
  (QueryCall /\ ~WrongLength(call.queryEmbedding) /\ ~call.sel.ok) =>
    ret.kind = "throw"


\* C25: when an upload returns, the successCount (chunksProcessed) it
\* reports is the number of chunk rows of its document in the primary
\* store: a chunk counted as failed left no row there.
C25_SuccessCountIsStoredRows ==
  UploadDone =>
    /\ ret.value.body.successCount =
         Cardinality({r \in embeddings : r.document_id = "d1"})
    /\ ret.value.body.chunksProcessed = ret.value.body.successCount


\* C26: whenever embedText issues the HTTP request to the embedding service,
\* the input it sends (the cleaned text) is not empty, also when the first
\* 8000 characters of the text are all whitespace.
C26_NeverSendsEmptyInput ==
  (call.fn = "embedText" /\ events = <<"embeddings.fetch">>) =>
    (call.input # Undefined /\ Len(call.input) > 0)


IdsOf(store) == {r.id : r \in store}

\* C27: every id a storeEmbedding call upserts into the secondary index is
\* in the primary store when the upsert is made, written by the same call;
\* so a storeEmbedding call, whatever fails in it, keeps the ids of the
\* secondary index a subset of the ids of the primary store.
C27_SecondaryShadowsPrimary ==
  [][call'.fn = "storeEmbedding" =>
       /\ ("pinecone.upsert" \in Range(events') \/ pinecone' # pinecone) =>
            /\ events'[1] = "pg.insert"
            /\ call'.fault # "pgFail"
            /\ call'.id \in IdsOf(embeddings')
       /\ IdsOf(pinecone') \ IdsOf(pinecone) \subseteq {call'.id}
       /\ IdsOf(pinecone) \subseteq IdsOf(embeddings) =>
            IdsOf(pinecone') \subseteq IdsOf(embeddings')]_vars

C27_Witness ==
  /\ StoreCall /\ call.fault = "none"
  /\ events = <<"pg.insert", "pinecone.upsert">>
  /\ call.before = {}
  /\ call.id \in IdsOf(pinecone) /\ call.id \in IdsOf(embeddings)
  /\ IdsOf(pinecone) \subseteq IdsOf(embeddings)


\* the matches the vector search of the last retrieveContext delivered, in
\* the order it returned them
SearchResult ==
  IF call.sel.rows # << >> THEN call.sel.rows
  ELSE IF FellBack THEN call.qry.matches
  ELSE << >>

\* the position of match m in the list ms
PositionIn(ms, m) == CHOOSE k \in 1..Len(ms) : ms[k] = m

\* C28: the re-ranking of retrieveContext yields a permutation of the matches
\* the search delivered (none added, dropped or duplicated), in which two
\* matches of equal lexical score against the query keep the order the
\* search returned them in.
C28_RerankStablePermutation ==
  (RetrieveCall /\ "pg.select" \in Range(events)) =>
    /\ Len(call.matches) = Len(SearchResult)
    /\ Range(call.matches) = Range(SearchResult)
    /\ \A i, j \in 1..Len(SearchResult) :
         (/\ i < j
          /\ LexicalScore(call.query, SearchResult[i].content)
               = LexicalScore(call.query, SearchResult[j].content)) =>
            PositionIn(call.matches, SearchResult[i])
              < PositionIn(call.matches, SearchResult[j])


\* ---------------------------------------- further claims on the chat route
\* C29: every response stream of the chat route ends up closed, and closed
\* exactly once, whether the upstream ends, a read of it fails or the
\* response has no body; a closed stream stays closed, and no event is
\* enqueued on it after the close.
C29_StreamClosedExactlyOnce ==
  /\ <>[](streamClosed /\ Len(closes) = 1)
  /\ [][streamClosed => (streamClosed' /\ emitted' = emitted /\ closes' = closes)]_vars
  /\ [](Len(closes) <= 1 /\ (streamClosed <=> Len(closes) = 1))

\* the three ways start() ends: the upstream was read to its end, a read
\* failed, there was no body; each time the route closed the stream
C29_Witness ==
  /\ startPc = "done" /\ closes = <<"route">> /\ streamClosed
  /\ call.fn = "controller.close" /\ emitted # << >>

C29_WitnessReadFailed ==
  /\ startPc = "done" /\ closes = <<"route">> /\ streamClosed
  /\ call.fn = "catch" /\ emitted # << >> /\ upstream # << >>

C29_WitnessNoBody ==
  /\ startPc = "done" /\ closes = <<"route">> /\ streamClosed
  /\ call.fn = "catch" /\ emitted = << >> /\ upstream = Wire(deltas)


\* ------------------------------------------------ claims on the chat client
\* C30: when a handleSendMessage that started with no current session has
\* finished and its session is still the current one, the sessions list and
\* the persisted chatSessions hold a session with that id, whose messages
\* are the sent user message followed by the assistant reply.
HoldsSentSession(list) ==
  \E k \in 1..Len(list) :
    /\ list[k].id = currentSessionId
    /\ Len(list[k].messages) = Len(send.newMessages) + 1
    /\ SubSeq(list[k].messages, 1, Len(send.newMessages)) = send.newMessages
    /\ list[k].messages[Len(list[k].messages)].role = "assistant"

C30_NewSessionKept ==
  (/\ send.pc = "done" /\ send.created
   /\ currentSessionId = send.sessionId) =>
    /\ HoldsSentSession(sessions)
    /\ HoldsSentSession(chatSessions)
====
